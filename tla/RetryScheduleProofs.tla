-------------------------- MODULE RetryScheduleProofs --------------------------
(***************************************************************************)
(* Proofs about RetrySchedule, for any local parts, delays, number of      *)
(* attempts, changes outside, failed calls and crashes.                    *)
(***************************************************************************)
EXTENDS RetrySchedule, FiniteSetTheorems, WellFoundedInduction, TLAPS

-----------------------------------------------------------------------------
(* The tables.                                                             *)

\* What the provider says of a hint, and what it says when it is unwell.
NoUser == Answer(550, {"user unknown"})
Full == Answer(452, {"mailbox full"})
Limited == Answer(421, {"rate limited"})
Later == Answer(451, {"try again later"})
Spam == Answer(554, {"spam"})
Failure == Answer(451, {"temporary failure"})
Outage == Answer(421, {"try again later"})

Refusals == {NoUser, Full, Limited, Later, Spam, Failure}

LEMMA FirstOfTable ==
  ASSUME NEW pairs, DOMAIN pairs \in {1..8, 1..16}, NEW keys, NEW default
  PROVE  \/ /\ \A i \in DOMAIN pairs : pairs[i][1] \notin keys
            /\ FirstOf(pairs, keys, default) = default
         \/ \E i \in DOMAIN pairs :
              /\ pairs[i][1] \in keys
              /\ \A j \in DOMAIN pairs : j < i => pairs[j][1] \notin keys
              /\ FirstOf(pairs, keys, default) = pairs[i][2]
<1> DEFINE hits == {i \in DOMAIN pairs : pairs[i][1] \in keys}
<1>1. CASE hits = {}
  BY <1>1 DEF FirstOf
<1>2. CASE hits # {}
  <2>1. \E i \in hits : \A j \in hits : i <= j
    BY <1>2
  <2>2. PICK i \in hits : i = (CHOOSE k \in hits : \A j \in hits : k <= j)
                          /\ \A j \in hits : i <= j
    BY <2>1
  <2>3. FirstOf(pairs, keys, default) = pairs[i][2]
    BY <1>2, <2>2 DEF FirstOf
  <2>4. \A j \in DOMAIN pairs : j < i => pairs[j][1] \notin keys
    BY <2>2
  <2> QED BY <2>2, <2>3, <2>4
<1> QED BY <1>1, <1>2

LEMMA ScriptedDomain == DOMAIN Scripted = 1..8
BY DEF Scripted

\* Each entry of the switch answers with one of them.
LEMMA ScriptedAnswers == \A i \in 1..8 : Scripted[i][2] \in Refusals
<1>1. /\ Scripted[1][2] = NoUser /\ Scripted[2][2] = NoUser
      /\ Scripted[3][2] = Full /\ Scripted[4][2] = Limited
  BY DEF Scripted, NoUser, Full, Limited
<1>2. /\ Scripted[5][2] = Later /\ Scripted[6][2] = Later
      /\ Scripted[7][2] = Spam /\ Scripted[8][2] = Failure
  BY DEF Scripted, Later, Spam, Failure
<1> QED BY <1>1, <1>2 DEF Refusals

LEMMA RulesDomain == DOMAIN rules = 1..16
BY DEF rules

\* The one rule that names a phrase the simulator uses.
LEMMA RuleOfPhrase ==
  \A j \in 1..16 :
    /\ rules[j][1] = "user unknown" => rules[j][2] = "hard_bounce"
    /\ rules[j][1] = "mailbox full" => rules[j][2] = "soft_bounce"
    /\ rules[j][1] = "rate limited" => rules[j][2] = "rate_limited"
    /\ rules[j][1] = "try again later" => rules[j][2] = "provider_deferral"
    /\ rules[j][1] = "spam" => rules[j][2] = "policy_rejection"
    /\ rules[j][1] = "temporary failure" => rules[j][2] = "transient_failure"
<1> DEFINE P(j) ==
      /\ rules[j][1] = "user unknown" => rules[j][2] = "hard_bounce"
      /\ rules[j][1] = "mailbox full" => rules[j][2] = "soft_bounce"
      /\ rules[j][1] = "rate limited" => rules[j][2] = "rate_limited"
      /\ rules[j][1] = "try again later" => rules[j][2] = "provider_deferral"
      /\ rules[j][1] = "spam" => rules[j][2] = "policy_rejection"
      /\ rules[j][1] = "temporary failure" => rules[j][2] = "transient_failure"
<1>1. P(1) /\ P(2) /\ P(3) /\ P(4)
  BY DEF rules
<1>2. P(5) /\ P(6) /\ P(7) /\ P(8)
  BY DEF rules
<1>3. P(9) /\ P(10) /\ P(11) /\ P(12)
  BY DEF rules
<1>4. P(13) /\ P(14) /\ P(15) /\ P(16)
  BY DEF rules
<1> HIDE DEF P
<1>5. \A j \in 1..16 : P(j)
  BY <1>1, <1>2, <1>3, <1>4
<1> QED BY <1>5 DEF P

LEMMA EveryPhraseHasARule ==
  /\ rules[1][1] = "user unknown"
  /\ rules[5][1] = "mailbox full"
  /\ rules[7][1] = "rate limited"
  /\ rules[9][1] = "try again later"
  /\ rules[12][1] = "spam"
  /\ rules[15][1] = "temporary failure"
BY DEF rules

\* A response with one of the phrases gets the kind of a rule that names it.
LEMMA ClassifyPhrase ==
  ASSUME NEW answer, NEW k \in 1..16, answer.phrases = {rules[k][1]}
  PROVE  \E j \in 1..16 : rules[j][1] = rules[k][1] /\ Classify(answer) = rules[j][2]
<1>1. rules[k][1] \in answer.phrases
  OBVIOUS
<1>2. \A j \in 1..16 : rules[j][1] \in answer.phrases => rules[j][1] = rules[k][1]
  OBVIOUS
<1>3. DOMAIN rules = 1..16
  BY RulesDomain
<1>4. \E j \in 1..16 : rules[j][1] \in answer.phrases
                       /\ FirstOf(rules, answer.phrases, "delivered") = rules[j][2]
  BY <1>1, <1>3, FirstOfTable
<1> QED BY <1>2, <1>4 DEF Classify

\* What each answer of the simulator is taken for.
LEMMA KindOfAnswer ==
  /\ Classify(Accepted) = "delivered"
  /\ Classify(NoUser) = "hard_bounce"
  /\ Classify(Full) = "soft_bounce"
  /\ Classify(Limited) = "rate_limited"
  /\ Classify(Later) = "provider_deferral"
  /\ Classify(Spam) = "policy_rejection"
  /\ Classify(Failure) = "transient_failure"
  /\ Classify(Outage) = "provider_deferral"
<1> USE DEF Answer
<1>1. Classify(Accepted) = "delivered"
  <2>1. Accepted.phrases = {}
    BY DEF Accepted
  <2> QED BY <2>1, RulesDomain, FirstOfTable DEF Classify
<1>2. Classify(NoUser) = "hard_bounce"
  <2>1. NoUser.phrases = {rules[1][1]}
    BY EveryPhraseHasARule DEF NoUser
  <2>2. \E j \in 1..16 : rules[j][1] = rules[1][1] /\ Classify(NoUser) = rules[j][2]
    BY <2>1, ClassifyPhrase
  <2> QED BY <2>2, EveryPhraseHasARule, RuleOfPhrase
<1>3. Classify(Full) = "soft_bounce"
  <2>1. Full.phrases = {rules[5][1]}
    BY EveryPhraseHasARule DEF Full
  <2>2. \E j \in 1..16 : rules[j][1] = rules[5][1] /\ Classify(Full) = rules[j][2]
    BY <2>1, ClassifyPhrase
  <2> QED BY <2>2, EveryPhraseHasARule, RuleOfPhrase
<1>4. Classify(Limited) = "rate_limited"
  <2>1. Limited.phrases = {rules[7][1]}
    BY EveryPhraseHasARule DEF Limited
  <2>2. \E j \in 1..16 : rules[j][1] = rules[7][1] /\ Classify(Limited) = rules[j][2]
    BY <2>1, ClassifyPhrase
  <2> QED BY <2>2, EveryPhraseHasARule, RuleOfPhrase
<1>5. Classify(Later) = "provider_deferral"
  <2>1. Later.phrases = {rules[9][1]}
    BY EveryPhraseHasARule DEF Later
  <2>2. \E j \in 1..16 : rules[j][1] = rules[9][1] /\ Classify(Later) = rules[j][2]
    BY <2>1, ClassifyPhrase
  <2> QED BY <2>2, EveryPhraseHasARule, RuleOfPhrase
<1>6. Classify(Spam) = "policy_rejection"
  <2>1. Spam.phrases = {rules[12][1]}
    BY EveryPhraseHasARule DEF Spam
  <2>2. \E j \in 1..16 : rules[j][1] = rules[12][1] /\ Classify(Spam) = rules[j][2]
    BY <2>1, ClassifyPhrase
  <2> QED BY <2>2, EveryPhraseHasARule, RuleOfPhrase
<1>7. Classify(Failure) = "transient_failure"
  <2>1. Failure.phrases = {rules[15][1]}
    BY EveryPhraseHasARule DEF Failure
  <2>2. \E j \in 1..16 : rules[j][1] = rules[15][1] /\ Classify(Failure) = rules[j][2]
    BY <2>1, ClassifyPhrase
  <2> QED BY <2>2, EveryPhraseHasARule, RuleOfPhrase
<1>8. Classify(Outage) = "provider_deferral"
  <2>1. Outage.phrases = {rules[9][1]}
    BY EveryPhraseHasARule DEF Outage
  <2>2. \E j \in 1..16 : rules[j][1] = rules[9][1] /\ Classify(Outage) = rules[j][2]
    BY <2>1, ClassifyPhrase
  <2> QED BY <2>2, EveryPhraseHasARule, RuleOfPhrase
<1> QED BY <1>1, <1>2, <1>3, <1>4, <1>5, <1>6, <1>7, <1>8

\* Without a hint the provider is well or unwell; with one it may also refuse.
LEMMA RawResponses ==
  ASSUME NEW hints, NEW reputation, NEW answer \in rawResponse(hints, reputation)
  PROVE  /\ answer \in {Accepted, Limited, Outage} \cup Refusals
         /\ hints = {} => answer \in {Accepted, Limited, Outage}
<1>1. PICK rolled \in Rolled(reputation) : answer = FirstOf(Scripted, hints, rolled)
  BY DEF rawResponse
<1>2. rolled \in {Accepted, Limited, Outage}
  BY DEF Rolled, Limited, Outage
<1>3. \/ answer = rolled
      \/ hints # {} /\ \E i \in 1..8 : answer = Scripted[i][2]
  BY <1>1, FirstOfTable, ScriptedDomain
<1> QED BY <1>2, <1>3, ScriptedAnswers

\* Every phrase the simulator uses is one the rules look for.
Phrases == {rules[i][1] : i \in DOMAIN rules}

LEMMA ResponsesTyped ==
  {Accepted, Limited, Outage} \cup Refusals \subseteq Responses
<1>1. \A i \in 1..16 : rules[i][1] \in Phrases
  BY RulesDomain DEF Phrases
<1>2. /\ rules[1][1] \in Phrases /\ rules[5][1] \in Phrases /\ rules[7][1] \in Phrases
      /\ rules[9][1] \in Phrases /\ rules[12][1] \in Phrases /\ rules[15][1] \in Phrases
  BY <1>1
<1>3. \A n \in Nat : \A phrases \in SUBSET Phrases : Answer(n, phrases) \in Responses
  BY DEF Responses, Phrases, Answer
<1>4. \A n \in Nat : \A k \in {1, 5, 7, 9, 12, 15} : Answer(n, {rules[k][1]}) \in Responses
  BY <1>2, <1>3
<1>5. Accepted \in Responses
  BY <1>3 DEF Accepted
<1>6. /\ NoUser = Answer(550, {rules[1][1]}) /\ Full = Answer(452, {rules[5][1]})
      /\ Limited = Answer(421, {rules[7][1]}) /\ Later = Answer(451, {rules[9][1]})
      /\ Spam = Answer(554, {rules[12][1]}) /\ Failure = Answer(451, {rules[15][1]})
      /\ Outage = Answer(421, {rules[9][1]})
  BY EveryPhraseHasARule DEF NoUser, Full, Limited, Later, Spam, Failure, Outage
<1>7. /\ NoUser \in Responses /\ Full \in Responses /\ Limited \in Responses
      /\ Later \in Responses /\ Spam \in Responses /\ Failure \in Responses
      /\ Outage \in Responses
  <2> DEFINE A(n, k) == Answer(n, {rules[k][1]})
  <2>1. /\ A(550, 1) \in Responses /\ A(452, 5) \in Responses /\ A(421, 7) \in Responses
        /\ A(451, 9) \in Responses /\ A(554, 12) \in Responses /\ A(451, 15) \in Responses
        /\ A(421, 9) \in Responses
    <3>1. \A n \in Nat : \A k \in {1, 5, 7, 9, 12, 15} : A(n, k) \in Responses
      BY <1>4
    <3> HIDE DEF A
    <3> QED BY <3>1
  <2>2. /\ NoUser = A(550, 1) /\ Full = A(452, 5) /\ Limited = A(421, 7)
        /\ Later = A(451, 9) /\ Spam = A(554, 12) /\ Failure = A(451, 15)
        /\ Outage = A(421, 9)
    BY <1>6
  <2> HIDE DEF A
  <2> QED BY <2>1, <2>2
<1> QED BY <1>5, <1>7 DEF Refusals

Soft == {"soft_bounce", "provider_deferral", "rate_limited", "transient_failure"}

LEMMA CodesAgree ==
  ASSUME NEW answer \in {Accepted, Limited, Outage} \cup Refusals
  PROVE  \/ answer.code \div 100 = 2 /\ Classify(answer) = "delivered"
         \/ answer.code \div 100 = 4 /\ Classify(answer) \in Soft
         \/ answer.code \div 100 = 5 /\ Classify(answer) \in {"hard_bounce", "policy_rejection"}
<1>1. /\ Accepted.code = 250 /\ NoUser.code = 550 /\ Full.code = 452 /\ Limited.code = 421
      /\ Later.code = 451 /\ Spam.code = 554 /\ Failure.code = 451 /\ Outage.code = 421
  BY DEF Answer, Accepted, NoUser, Full, Limited, Later, Spam, Failure, Outage
<1>2. /\ 250 \div 100 = 2 /\ 550 \div 100 = 5 /\ 452 \div 100 = 4 /\ 421 \div 100 = 4
      /\ 451 \div 100 = 4 /\ 554 \div 100 = 5
  OBVIOUS
<1>3. \/ answer = Accepted \/ answer = NoUser \/ answer = Full \/ answer = Limited
      \/ answer = Later \/ answer = Spam \/ answer = Failure \/ answer = Outage
  BY DEF Refusals
<1> QED BY <1>1, <1>2, <1>3, KindOfAnswer DEF Soft

\* What an attempt may be answered and how it is then classified.
LEMMA AttemptAnswered ==
  ASSUME NEW hints, NEW reputation, NEW answer \in rawResponse(hints, reputation)
  PROVE  /\ answer \in Responses
         /\ \/ answer.code \div 100 = 2 /\ Classify(answer) = "delivered"
            \/ answer.code \div 100 = 4 /\ Classify(answer) \in Soft
            \/ /\ answer.code \div 100 = 5
               /\ Classify(answer) \in {"hard_bounce", "policy_rejection"}
               /\ hints # {}
<1>1. CASE hints = {}
  <2>1. answer \in {Accepted, Limited, Outage}
    BY <1>1, RawResponses
  <2>2. Classify(answer) \in {"delivered", "rate_limited", "provider_deferral"}
    BY <2>1, KindOfAnswer
  <2> QED BY <2>1, <2>2, CodesAgree, ResponsesTyped DEF Soft
<1>2. CASE hints # {}
  BY <1>2, RawResponses, CodesAgree, ResponsesTyped
<1> QED BY <1>1, <1>2

-----------------------------------------------------------------------------
(* The invariant.                                                          *)

\* An attempt that did not end the message was refused with a 4xx, or was interrupted, or is
\* being made; nothing was yet taken up before the time of the one being made; a dead letter
\* has used up its attempts.
AttemptsPaidFor ==
  /\ status \notin {"delivered", "bounced", "failed"} =>
       attempt_count <= refusals + interrupted + IF pc = "sending" THEN 1 ELSE 0
  /\ pc = "sending" => attempt_count # 0 /\ attempt_count \notin early
  /\ status = "dead_lettered" => attempt_count >= maxAttempts

IInv == TypeOK /\ OutagePoisonsNobody /\ CodeAgrees /\ AttemptsPaidFor

LEMMA EarlyIsFinite ==
  ASSUME TypeOK
  PROVE  /\ attempt_count \in Nat /\ IsFiniteSet(early) /\ Cardinality(early) \in Nat
         /\ attempt_count + 1 \notin early
         /\ Cardinality(early \cup {attempt_count}) \in {Cardinality(early), Cardinality(early) + 1}
<1>1. attempt_count \in Nat /\ early \subseteq 0..attempt_count
  BY DEF TypeOK
<1>2. IsFiniteSet(0..attempt_count)
  BY <1>1, FS_Interval
<1>3. IsFiniteSet(early)
  BY <1>1, <1>2, FS_Subset
<1> QED BY <1>1, <1>3, FS_CardinalityType, FS_AddElement

LEMMA InitIInv == Init => IInv
<1> SUFFICES ASSUME Init PROVE IInv
  OBVIOUS
<1> USE RetryAssumption DEF Init
<1>2. TypeOK
  <2>1. response \in Responses
    BY ResponsesTyped
  <2>2. early \subseteq 0..attempt_count /\ changes \in 0..MaxChanges /\ faults \in 0..MaxFaults
    OBVIOUS
  <2>3. status \in Terminal \cup {"queued", "sending", "deferred"} /\ kind \in Kinds \cup {"none"}
    OBVIOUS
  <2>4. wait \in Nat /\ entries \in Nat /\ fresh \in 0..entries
    OBVIOUS
  <2>5. 0 \in Nat /\ ~(0 > 0)
    OBVIOUS
  <2>6. wait > 0 => status = "deferred"
    BY <2>5
  <2>7. pc \in {"idle", "sending"} /\ (pc = "sending" => status = "sending" /\ entries > fresh)
    OBVIOUS
  <2> HIDE DEF Responses, Terminal, Kinds
  <2> QED BY <2>1, <2>2, <2>3, <2>4, <2>5, <2>6, <2>7 DEF TypeOK
<1>3. OutagePoisonsNobody /\ CodeAgrees
  BY DEF OutagePoisonsNobody, CodeAgrees
<1>4. AttemptsPaidFor
  BY DEF AttemptsPaidFor
<1> QED BY <1>2, <1>3, <1>4 DEF IInv

\* The backoff after an attempt is a natural number.
LEMMA BackoffTyped ==
  ASSUME NEW attempts \in Nat
  PROVE  withJitter(BaseOf(attempts)) \subseteq Nat
<1>1. baseDelays \in Seq(Nat) /\ Len(baseDelays) \in Nat \ {0}
  BY RetryAssumption
<1>2. BaseOf(attempts) \in Nat
  BY <1>1 DEF BaseOf
<1> QED BY <1>2 DEF withJitter

\* What an attempt does to the message, whichever way it ends.
LEMMA AttemptOutcome ==
  ASSUME TypeOK, Attempt
  PROVE  /\ response' \in Responses
         /\ \/ /\ response'.code \div 100 = 2 /\ kind' = "delivered" /\ status' = "delivered"
               /\ wait' = 0 /\ delay' = delay /\ refusals' = refusals
            \/ /\ response'.code \div 100 = 4 /\ kind' \in Soft /\ refusals' = refusals + 1
               /\ wait' \in Nat /\ delay' \in Nat
               /\ \/ status' = "deferred"
                  \/ status' = "dead_lettered" /\ attempt_count >= maxAttempts
            \/ /\ response'.code \div 100 = 5 /\ refusals' = refusals /\ local # {}
               /\ kind' \in {"hard_bounce", "policy_rejection"}
               /\ status' \in {"bounced", "failed"} /\ wait' = 0 /\ delay' = delay
<1>1. PICK answer \in rawResponse(local, reputation_state) :
        /\ response' = answer /\ kind' = Classify(answer)
        /\ refusals' = refusals + IF answer.code \div 100 = 4 THEN 1 ELSE 0
  BY DEF Attempt
<1>2. refusals \in Nat /\ attempt_count \in Nat /\ spent \in Nat /\ delay \in Nat
  BY DEF TypeOK
<1>3. Retry => /\ wait' \in Nat /\ delay' \in Nat
               /\ \/ status' = "deferred"
                  \/ status' = "dead_lettered" /\ attempt_count >= maxAttempts
  BY <1>2, BackoffTyped DEF Retry, Exhausted
<1>4. kind' \in Soft => Retry
  BY DEF Attempt, Soft
<1>5. /\ kind' = "delivered" => status' = "delivered" /\ wait' = 0 /\ delay' = delay
      /\ kind' \in {"hard_bounce", "policy_rejection"} =>
           status' \in {"bounced", "failed"} /\ wait' = 0 /\ delay' = delay
  BY DEF Attempt
<1>6. /\ response' \in Responses
      /\ \/ response'.code \div 100 = 2 /\ kind' = "delivered"
         \/ response'.code \div 100 = 4 /\ kind' \in Soft
         \/ /\ response'.code \div 100 = 5 /\ local # {}
            /\ kind' \in {"hard_bounce", "policy_rejection"}
  BY <1>1, AttemptAnswered
<1>7. refusals' = refusals + IF response'.code \div 100 = 4 THEN 1 ELSE 0
  BY <1>1
<1> DEFINE hundreds == response'.code \div 100
<1>8. /\ hundreds = 2 => refusals' = refusals
      /\ hundreds = 5 => refusals' = refusals
      /\ hundreds = 4 => refusals' = refusals + 1
  <2>1. refusals' = refusals + IF hundreds = 4 THEN 1 ELSE 0
    BY <1>7
  <2> HIDE DEF hundreds
  <2> QED BY <2>1, <1>2
<1> QED BY <1>3, <1>4, <1>5, <1>6, <1>8

\* What leaves the row, the worker and the clocks alone.
Bystander ==
  \/ Change \/ Poll \/ Enqueue
  \/ \E pending \in BOOLEAN : Skip(pending) \/ Abandon(pending)
  \/ UNCHANGED vars

LEMMA BystanderLeaves ==
  ASSUME Bystander
  PROVE  UNCHANGED <<local, status, attempt_count, wait, pc, spent, outcome, elapsed, interrupted, early>>
BY DEF Bystander, Change, Poll, Enqueue, Skip, Abandon, vars, outside, history

LEMMA Steps ==
  ASSUME [Next]_vars
  PROVE  \/ Bystander \/ Tick \/ Mark \/ Attempt \/ Crash
         \/ \E pending \in BOOLEAN : Hold(pending) \/ Begin(pending)
BY DEF Next, Process, Bystander

\* A step may take a fault into account, and what is early grows by the last attempt at most.
LEMMA FaultType ==
  ASSUME TypeOK, Fault \/ NoFault
  PROVE  /\ poller' \in {"idle", "due", "marked"} /\ poller' \in {poller, "idle"}
         /\ dropped' \in BOOLEAN
         /\ faults' \in 0..MaxFaults
         /\ NoFault \/ faults' = faults + 1
<1>1. poller \in {"idle", "due", "marked"} /\ faults \in 0..MaxFaults /\ MaxFaults \in Nat
  BY RetryAssumption DEF TypeOK
<1>2. CASE Fault
  <2>1. faults < MaxFaults /\ faults' = faults + 1 /\ poller' \in {poller, "idle"}
    BY <1>2 DEF Fault
  <2>2. dropped' = dropped \/ dropped' = (dropped \/ poller = "marked")
    BY <1>2 DEF Fault
  <2>3. dropped' \in BOOLEAN
    BY <2>2 DEF TypeOK
  <2>4. faults' \in 0..MaxFaults
    BY <1>1, <2>1
  <2> QED BY <1>1, <2>1, <2>3, <2>4
<1>3. CASE NoFault
  <2>1. UNCHANGED <<poller, dropped, faults>>
    BY <1>3 DEF NoFault
  <2> QED BY <1>1, <1>3, <2>1 DEF TypeOK
<1> QED BY <1>2, <1>3

LEMMA AckType ==
  ASSUME TypeOK, AckOrFail, NEW unread \in Nat, entries > unread
  PROVE  /\ entries' \in Nat /\ unread \in 0..entries'
         /\ Fault \/ NoFault
         /\ \/ entries' = entries - 1 /\ NoFault
            \/ entries' = entries /\ Fault
BY DEF AckOrFail, LeavePending, TypeOK

LEMMA EarlyType ==
  ASSUME TypeOK, Early
  PROVE  /\ early' \subseteq 0..attempt_count
         /\ early' = early \/ (wait > 0 /\ early' = early \cup {attempt_count})
BY DEF Early, TypeOK

LEMMA TakeUpType ==
  ASSUME TypeOK, NEW pending \in BOOLEAN, TakeUp(pending)
  PROVE  pc = "idle" /\ fresh' \in Nat /\ entries > fresh'
BY DEF TakeUp, TypeOK

\* Every action preserves the types: the stream and the poller first.
LEMMA StreamType ==
  ASSUME TypeOK, [Next]_vars
  PROVE  /\ entries' \in Nat /\ fresh' \in 0..entries' /\ poller' \in {"idle", "due", "marked"}
         /\ dropped' \in BOOLEAN /\ faults' \in 0..MaxFaults
         /\ pc' = "sending" => entries' > fresh'
<1>0. /\ entries \in Nat /\ fresh \in 0..entries /\ poller \in {"idle", "due", "marked"}
      /\ dropped \in BOOLEAN /\ faults \in 0..MaxFaults /\ MaxFaults \in Nat
      /\ pc \in {"idle", "sending"}
      /\ pc = "sending" => entries > fresh
  BY RetryAssumption DEF TypeOK
<1>1. CASE Change \/ Tick \/ UNCHANGED vars
  <2>1. UNCHANGED <<entries, fresh, poller, dropped, faults, pc>>
    BY <1>1 DEF Change, Tick, vars, stream, history
  <2> QED BY <1>0, <2>1
<1>2. CASE Poll
  BY <1>0, <1>2 DEF Poll, stream, history
<1>3. CASE Mark
  BY <1>0, <1>3 DEF Mark, stream
<1>4. CASE Enqueue
  <2>1. \/ entries' = entries + 1 /\ fresh' = fresh + 1
        \/ entries' = entries /\ fresh' = fresh
    BY <1>4 DEF Enqueue, stream
  <2>2. poller' = "idle" /\ pc' = pc /\ dropped' \in BOOLEAN
    BY <1>0, <1>4 DEF Enqueue
  <2>3. faults' = faults \/ (faults < MaxFaults /\ faults' = faults + 1)
    BY <1>4 DEF Enqueue
  <2>4. faults' \in 0..MaxFaults
    BY <1>0, <2>3
  <2> QED BY <1>0, <2>1, <2>2, <2>4
<1>5. ASSUME NEW pending \in BOOLEAN, Abandon(pending)
      PROVE  /\ entries' \in Nat /\ fresh' \in 0..entries' /\ pc' = "idle"
             /\ Fault \/ NoFault
  BY <1>0, <1>5, TakeUpType DEF Abandon, LeavePending
<1>6. ASSUME NEW pending \in BOOLEAN, Skip(pending) \/ Hold(pending)
      PROVE  /\ entries' \in Nat /\ fresh' \in 0..entries' /\ pc' = "idle"
             /\ Fault \/ NoFault
  <2>1. TakeUp(pending) /\ AckOrFail /\ pc' = pc
    BY <1>6 DEF Skip, Hold
  <2>2. pc = "idle" /\ fresh' \in Nat /\ entries > fresh'
    BY <2>1, TakeUpType
  <2> QED BY <2>1, <2>2, AckType
<1>7. ASSUME NEW pending \in BOOLEAN, Begin(pending)
      PROVE  /\ entries' \in Nat /\ fresh' \in 0..entries' /\ entries' > fresh'
             /\ NoFault
  <2>1. TakeUp(pending) /\ entries' = entries /\ NoFault
    BY <1>7 DEF Begin, NoFault
  <2> QED BY <1>0, <2>1, TakeUpType
<1>8. CASE Attempt
  <2>1. pc = "sending" /\ AckOrFail /\ fresh' = fresh /\ pc' = "idle"
    BY <1>8 DEF Attempt
  <2> QED BY <1>0, <2>1, AckType, FaultType
<1>9. CASE Crash
  <2>1. entries' = entries /\ fresh' = fresh /\ pc' = "idle" /\ Fault
    BY <1>9 DEF Crash, LeavePending
  <2> QED BY <1>0, <2>1, FaultType
<1>10. CASE \E pending \in BOOLEAN : Skip(pending) \/ Hold(pending) \/ Abandon(pending)
  BY <1>5, <1>6, <1>10, FaultType
<1>11. CASE \E pending \in BOOLEAN : Begin(pending)
  BY <1>7, <1>11, FaultType
<1> QED BY <1>1, <1>2, <1>3, <1>4, <1>8, <1>9, <1>10, <1>11 DEF Next, Process

RowTyped ==
  /\ status \in Terminal \cup {"queued", "sending", "deferred"}
  /\ attempt_count \in Nat /\ wait \in Nat /\ (wait > 0 => status = "deferred")
  /\ pc \in {"idle", "sending"} /\ (pc = "sending" => status = "sending")
  /\ spent \in Nat /\ elapsed \in Nat /\ interrupted \in Nat
  /\ early \subseteq 0..attempt_count
  /\ suppressed \in BOOLEAN /\ response \in Responses /\ kind \in Kinds \cup {"none"}
  /\ delay \in Nat /\ refusals \in Nat

\* Then the row, the worker and what the attempt leaves behind.
LEMMA RowType ==
  ASSUME TypeOK, [Next]_vars
  PROVE  RowTyped'
<1>0. /\ RowTyped /\ HoldDelay \in Nat
  BY RetryAssumption DEF TypeOK, RowTyped
<1>1. CASE Bystander
  <2>1. UNCHANGED <<status, attempt_count, wait, pc, spent, suppressed, response, kind, delay,
                    refusals, elapsed, interrupted, early>>
    BY <1>1, BystanderLeaves DEF outcome
  <2> QED BY <1>0, <2>1 DEF RowTyped
<1>2. CASE Tick
  <2>1. /\ UNCHANGED <<status, attempt_count, pc, suppressed, response, kind, delay, refusals,
                       interrupted, early>>
        /\ wait' \in Nat /\ (wait' > 0 => wait > 0) /\ spent' \in Nat /\ elapsed' \in Nat
    BY <1>0, <1>2 DEF Tick, outcome, RowTyped
  <2> QED BY <1>0, <2>1 DEF RowTyped
<1>3. CASE Mark
  <2>1. UNCHANGED <<attempt_count, pc, spent, suppressed, response, kind, delay, refusals,
                    elapsed, interrupted>>
    BY <1>3 DEF Mark, outcome
  <2>2. \/ UNCHANGED <<status, wait, early>>
        \/ status = "deferred" /\ status' = "queued" /\ wait' = 0 /\ early' \subseteq 0..attempt_count
    BY <1>3, EarlyType DEF Mark, MarkQueued
  <2>3. status = "deferred" => pc = "idle"
    BY <1>0 DEF RowTyped
  <2>4. CASE UNCHANGED <<status, wait, early>>
    BY <1>0, <2>1, <2>4 DEF RowTyped
  <2>5. CASE /\ status = "deferred" /\ status' = "queued" /\ wait' = 0
             /\ early' \subseteq 0..attempt_count
    BY <1>0, <2>1, <2>3, <2>5 DEF RowTyped
  <2> QED BY <2>2, <2>4, <2>5
<1>4. ASSUME NEW pending \in BOOLEAN, Hold(pending)
      PROVE  RowTyped'
  <2>1. /\ UNCHANGED <<attempt_count, pc, spent, suppressed, response, kind, delay, refusals,
                       elapsed, interrupted>>
        /\ status' = "deferred" /\ wait' \in Nat /\ pc = "idle"
        /\ early' \subseteq 0..attempt_count
    BY <1>0, <1>4, EarlyType DEF Hold, HoldCount, TakeUp, outcome
  <2> QED BY <1>0, <2>1 DEF RowTyped
<1>5. ASSUME NEW pending \in BOOLEAN, Begin(pending)
      PROVE  RowTyped'
  <2>1. /\ UNCHANGED <<suppressed, response, kind, delay, refusals, elapsed, interrupted>>
        /\ status' = "sending" /\ wait' = 0 /\ pc' = "sending" /\ spent' = 0
        /\ attempt_count' = attempt_count + 1 /\ early' \subseteq 0..attempt_count
    BY <1>5, EarlyType DEF Begin, outcome
  <2>2. attempt_count' \in Nat /\ early' \subseteq 0..attempt_count'
    BY <1>0, <2>1 DEF RowTyped
  <2> QED BY <1>0, <2>1, <2>2 DEF RowTyped
<1>6. CASE Attempt
  <2>1. /\ UNCHANGED <<attempt_count, elapsed, interrupted, early>>
        /\ pc' = "idle" /\ spent' = 0 /\ suppressed' \in BOOLEAN
    BY <1>0, <1>6 DEF Attempt, RowTyped
  <2>2. /\ response' \in Responses /\ wait' \in Nat /\ delay' \in Nat /\ refusals' \in Nat
        /\ status' \in Terminal \cup {"deferred"}
        /\ kind' \in Kinds
    BY <1>0, <1>6, AttemptOutcome DEF Kinds, Soft, RowTyped, Terminal
  <2>3. wait' > 0 => status' = "deferred"
    BY <1>6 DEF Attempt, Retry
  <2> QED BY <1>0, <2>1, <2>2, <2>3 DEF RowTyped
<1>7. CASE Crash
  <2>1. /\ UNCHANGED <<status, attempt_count, wait, suppressed, response, kind, delay, refusals,
                       elapsed>>
        /\ pc' = "idle" /\ spent' = 0 /\ interrupted' = interrupted + 1
        /\ early' = early \cup {attempt_count}
    BY <1>7 DEF Crash, outcome
  <2> QED BY <1>0, <2>1 DEF RowTyped
<1> QED BY <1>1, <1>2, <1>3, <1>4, <1>5, <1>6, <1>7, Steps

LEMMA TypeStep ==
  ASSUME TypeOK, [Next]_vars
  PROVE  TypeOK'
<1>1. /\ local' \in Locals /\ reputation_state' \in {"healthy", "degraded", "down"}
      /\ throttled' \in BOOLEAN /\ changes' \in 0..MaxChanges
  <2>1. UNCHANGED outside \/ Change
    BY DEF Next, Tick, Poll, Mark, Enqueue, Process, Skip, Hold, Begin, Abandon, Attempt, Crash, vars
  <2>2. CASE UNCHANGED outside
    BY <2>2 DEF outside, TypeOK
  <2>3. CASE Change
    <3>1. local' = local /\ changes' \in 0..MaxChanges
      BY <2>3, RetryAssumption DEF Change, TypeOK
    <3>2. reputation_state' \in {"healthy", "degraded", "down"}
      BY <2>3 DEF Change, TypeOK
    <3>3. throttled' \in BOOLEAN
      BY <2>3 DEF Change, TypeOK
    <3> QED BY <3>1, <3>2, <3>3 DEF TypeOK
  <2> QED BY <2>1, <2>2, <2>3
<1> QED BY <1>1, StreamType, RowType DEF TypeOK, RowTyped

\* Every action but Attempt leaves alone what CodeAgrees and OutagePoisonsNobody speak of.
LEMMA OutcomeStep ==
  ASSUME TypeOK, OutagePoisonsNobody, CodeAgrees, [Next]_vars
  PROVE  OutagePoisonsNobody' /\ CodeAgrees'
<1>1. CASE Attempt
  <2>1. local' = local /\ suppressed' = (suppressed \/ kind' = "hard_bounce")
    BY <1>1 DEF Attempt, outside
  <2>2. /\ local = {} => status' \notin {"bounced", "failed"} /\ kind' # "hard_bounce"
    BY <1>1, AttemptOutcome DEF Soft
  <2>3. OutagePoisonsNobody'
    BY <2>1, <2>2 DEF OutagePoisonsNobody
  <2> DEFINE hundreds == response'.code \div 100
  <2>4. \/ hundreds = 2 /\ kind' = "delivered"
        \/ hundreds = 4 /\ kind' \in Soft
        \/ hundreds = 5 /\ kind' \in {"hard_bounce", "policy_rejection"}
    BY <1>1, AttemptOutcome
  <2>5. /\ hundreds = 2 => kind' = "delivered"
        /\ hundreds = 4 => kind' \in Soft
        /\ hundreds # 2 /\ hundreds # 4 => kind' \in {"hard_bounce", "policy_rejection"}
    <3> HIDE DEF hundreds
    <3> QED BY <2>4
  <2>6. CodeAgrees'
    BY <2>5 DEF CodeAgrees, Soft
  <2> QED BY <2>3, <2>6
<1>2. CASE ~Attempt
  <2>1. /\ UNCHANGED <<local, suppressed, response, kind>>
        /\ status' \in {status, "queued", "deferred", "sending"}
    <3>1. CASE Bystander
      BY <3>1, BystanderLeaves DEF outcome
    <3>2. CASE Tick \/ Mark \/ Crash
      BY <3>2 DEF Tick, Mark, MarkQueued, Crash, outside, outcome
    <3>3. CASE \E pending \in BOOLEAN : Hold(pending) \/ Begin(pending)
      BY <3>3 DEF Hold, Begin, outside, outcome
    <3> QED BY <1>2, <3>1, <3>2, <3>3, Steps
  <2>2. OutagePoisonsNobody'
    BY <2>1 DEF OutagePoisonsNobody
  <2>3. CodeAgrees'
    BY <2>1 DEF CodeAgrees
  <2> QED BY <2>2, <2>3
<1> QED BY <1>1, <1>2

\* A hold takes no attempt, an attempt that is refused or interrupted pays for itself.
LEMMA PaidStep ==
  ASSUME TypeOK, AttemptsPaidFor, [Next]_vars
  PROVE  AttemptsPaidFor'
<1>1. /\ attempt_count \in Nat /\ refusals \in Nat /\ interrupted \in Nat
      /\ attempt_count + 1 \notin early
  BY EarlyIsFinite DEF TypeOK
<1>2. CASE Bystander \/ Tick
  <2>1. UNCHANGED <<status, attempt_count, pc, refusals, interrupted, early>>
    BY <1>2, BystanderLeaves DEF Tick, outcome
  <2> QED BY <2>1 DEF AttemptsPaidFor
<1>3. CASE Mark
  <2>1. /\ UNCHANGED <<attempt_count, pc, refusals, interrupted>>
        /\ \/ UNCHANGED <<status, early>>
           \/ status = "deferred" /\ status' = "queued"
    BY <1>3 DEF Mark, MarkQueued, outcome
  <2>2. status = "deferred" => pc = "idle"
    BY DEF TypeOK
  <2> QED BY <2>1, <2>2 DEF AttemptsPaidFor
<1>4. ASSUME NEW pending \in BOOLEAN, Hold(pending)
      PROVE  AttemptsPaidFor'
  <2>1. /\ UNCHANGED <<attempt_count, pc, refusals, interrupted>> /\ pc = "idle"
        /\ status \notin Terminal /\ status' = "deferred"
    BY <1>4 DEF Hold, HoldCount, TakeUp, outcome
  <2> QED BY <2>1 DEF AttemptsPaidFor, Terminal
<1>5. ASSUME NEW pending \in BOOLEAN, Begin(pending)
      PROVE  AttemptsPaidFor'
  <2>1. /\ status \notin Terminal /\ status' = "sending" /\ pc = "idle" /\ pc' = "sending"
        /\ attempt_count' = attempt_count + 1 /\ UNCHANGED <<refusals, interrupted>>
        /\ early' \subseteq early \cup {attempt_count}
    BY <1>5, EarlyType DEF Begin, TakeUp, outcome
  <2> QED BY <1>1, <2>1 DEF AttemptsPaidFor, Terminal
<1>6. CASE Attempt
  <2>1. /\ pc = "sending" /\ pc' = "idle" /\ attempt_count' = attempt_count /\ status = "sending"
        /\ interrupted' = interrupted
    BY <1>6 DEF Attempt, TypeOK
  <2>2. \/ status' \in {"delivered", "bounced", "failed"}
        \/ /\ refusals' = refusals + 1
           /\ \/ status' = "deferred"
              \/ status' = "dead_lettered" /\ attempt_count >= maxAttempts
    BY <1>6, AttemptOutcome
  <2> QED BY <1>1, <2>1, <2>2 DEF AttemptsPaidFor
<1>7. CASE Crash
  <2>1. /\ pc = "sending" /\ pc' = "idle" /\ status = "sending" /\ interrupted' = interrupted + 1
        /\ UNCHANGED <<status, attempt_count, refusals>>
    BY <1>7 DEF Crash, TypeOK, outcome
  <2> QED BY <1>1, <2>1 DEF AttemptsPaidFor
<1> QED BY <1>2, <1>3, <1>4, <1>5, <1>6, <1>7, Steps

LEMMA NextIInv == IInv /\ [Next]_vars => IInv'
BY TypeStep, OutcomeStep, PaidStep DEF IInv

LEMMA AlwaysIInv == Spec => []IInv
BY InitIInv, NextIInv, PTL DEF Spec

-----------------------------------------------------------------------------
(* What follows from it.                                                   *)

\* Every variable keeps its type.
THEOREM TypeCorrect == Spec => []TypeOK
<1>1. IInv => TypeOK
  BY DEF IInv
<1> QED BY <1>1, AlwaysIInv, PTL

\* simulate.go and classify.go agree on what a code means, for any hints and any health.
THEOREM CodeAndKindAgree == Spec => []CodeAgrees
<1>1. IInv => CodeAgrees
  BY DEF IInv
<1> QED BY <1>1, AlwaysIInv, PTL

\* No outage, whatever its length, bounces, fails or suppresses a recipient without a hint.
THEOREM OutagesAreHarmless == Spec => []OutagePoisonsNobody
<1>1. IInv => OutagePoisonsNobody
  BY DEF IInv
<1> QED BY <1>1, AlwaysIInv, PTL

\* A message is dead-lettered for maxAttempts refusals and interruptions, never for holds.
THEOREM DeadLettersArePaidFor == Spec => []DeadLettersWereRefused
<1>1. IInv => DeadLettersWereRefused
  <2> SUFFICES ASSUME IInv, status = "dead_lettered"
               PROVE  refusals + interrupted >= maxAttempts
    BY DEF DeadLettersWereRefused
  <2>1. TypeOK /\ AttemptsPaidFor
    BY DEF IInv
  <2>2. pc # "sending" /\ refusals \in Nat /\ interrupted \in Nat /\ attempt_count \in Nat
    BY <2>1 DEF TypeOK
  <2> QED BY <2>1, <2>2, RetryAssumption DEF AttemptsPaidFor
<1> QED BY <1>1, AlwaysIInv, PTL
-----------------------------------------------------------------------------
(* Sums.  Patience sums over a set with the fold of the community modules,  *)
(* which takes the elements out one at a time in an order of its own.  What *)
(* is known of it is proved by least counterexample, over the number of     *)
(* elements.                                                                *)

Smaller == {ss \in Nat \X Nat : ss[1] < ss[2]}

\* A set of numbers that is not empty has a least one.
LEMMA LeastOf ==
  ASSUME NEW T \in SUBSET Nat, T # {}
  PROVE  \E n \in T : \A m \in T : n <= m
<1>1. Smaller = OpToRel(<, Nat)
  BY DEF Smaller, OpToRel
<1>2. IsWellFoundedOn(Smaller, Nat)
  BY <1>1, NatLessThanWellFounded
<1>3. \E n \in T : \A m \in T : ~(<<m, n>> \in Smaller)
  BY <1>2, WFMin, Zenon
<1>4. PICK n \in T : \A m \in T : ~(<<m, n>> \in Smaller)
  BY <1>3
<1>5. ASSUME NEW m \in T PROVE n <= m
  <2>1. m \in Nat /\ n \in Nat /\ <<m, n>> \notin Smaller
    BY <1>4
  <2>2. ~(m < n)
    BY <2>1 DEF Smaller
  <2> QED BY <2>1, <2>2
<1> QED BY <1>5

Sum(S) == MapThenSumSet(Floor, S)

\* The element the fold takes out of a set, and the function it computes on the subsets of S.
Pick(s) == CHOOSE x \in s : TRUE
Sums(S, f) ==
  f = [s \in SUBSET S |-> IF s = {} THEN 0 ELSE Floor(Pick(s)) + f[s \ {Pick(s)}]]

LEMMA SumIs == ASSUME NEW S PROVE Sum(S) = (CHOOSE f : Sums(S, f))[S]
BY DEF Sum, MapThenSumSet, MapThenFoldSet, Sums, Pick

LEMMA PickIn == ASSUME NEW s, s # {} PROVE Pick(s) \in s
BY DEF Pick

\* A set without the element taken out of it is smaller.
LEMMA PickLess ==
  ASSUME NEW s, IsFiniteSet(s), s # {}
  PROVE  /\ Pick(s) \in s
         /\ IsFiniteSet(s \ {Pick(s)})
         /\ Cardinality(s) \in Nat /\ Cardinality(s \ {Pick(s)}) \in Nat
         /\ Cardinality(s \ {Pick(s)}) < Cardinality(s)
<1>1. Pick(s) \in s
  BY PickIn
<1>2. IsFiniteSet(s \ {Pick(s)})
  BY FS_Subset
<1>3. Cardinality(s \ {Pick(s)}) = Cardinality(s) - 1
  BY <1>1, FS_RemoveElement
<1> QED BY <1>1, <1>2, <1>3, FS_CardinalityType

LEMMA SumsAt ==
  ASSUME NEW S, NEW f, Sums(S, f), NEW s \in SUBSET S
  PROVE  f[s] = IF s = {} THEN 0 ELSE Floor(Pick(s)) + f[s \ {Pick(s)}]
BY DEF Sums

\* Two such functions agree where both are defined.
LEMMA SumsAgree ==
  ASSUME NEW S, IsFiniteSet(S), NEW T \in SUBSET S, NEW f, NEW g, Sums(S, f), Sums(T, g)
  PROVE  f[T] = g[T]
<1> DEFINE Bad == {n \in Nat : \E U \in SUBSET T : Cardinality(U) = n /\ f[U] # g[U]}
<1>1. ASSUME Bad # {} PROVE FALSE
  <2>1. PICK n \in Bad : \A m \in Bad : n <= m
    BY <1>1, LeastOf
  <2>2. PICK U \in SUBSET T : Cardinality(U) = n /\ f[U] # g[U]
    BY <2>1
  <2>3. IsFiniteSet(U) /\ U \in SUBSET S
    BY FS_Subset
  <2>4. U # {}
    BY <2>2, <2>3, SumsAt
  <2>5. f[U \ {Pick(U)}] # g[U \ {Pick(U)}]
    BY <2>2, <2>3, <2>4, SumsAt
  <2>6. Cardinality(U \ {Pick(U)}) \in Nat /\ Cardinality(U \ {Pick(U)}) < n
    BY <2>2, <2>3, <2>4, PickLess
  <2>7. Cardinality(U \ {Pick(U)}) \in Bad
    <3>1. U \ {Pick(U)} \in SUBSET T
      OBVIOUS
    <3> QED BY <2>5, <2>6, <3>1
  <2> HIDE DEF Bad
  <2>8. n <= Cardinality(U \ {Pick(U)}) /\ n \in Nat
    BY <2>1, <2>7 DEF Bad
  <2> QED BY <2>6, <2>8
<1>2. T \in SUBSET T /\ IsFiniteSet(T) /\ Cardinality(T) \in Nat
  BY FS_Subset, FS_CardinalityType
<1> QED BY <1>1, <1>2

\* There is such a function on the subsets of a finite set.
LEMMA SumsExist ==
  ASSUME NEW S, IsFiniteSet(S)
  PROVE  \E f : Sums(S, f)
<1> DEFINE Bad == {n \in Nat : \E U \in SUBSET S : Cardinality(U) = n /\ ~ \E f : Sums(U, f)}
<1>1. ASSUME Bad # {} PROVE FALSE
  <2>1. PICK n \in Bad : \A m \in Bad : n <= m
    BY <1>1, LeastOf
  <2>2. PICK U \in SUBSET S : Cardinality(U) = n /\ ~ \E f : Sums(U, f)
    BY <2>1
  <2>3. IsFiniteSet(U)
    BY FS_Subset
  <2> DEFINE Val(s) == (CHOOSE f : Sums(s, f))[s]
             Rest(s) == s \ {Pick(s)}
  <2>4. ASSUME NEW s \in SUBSET U, s # U
        PROVE  /\ IsFiniteSet(s)
               /\ Sums(s, CHOOSE f : Sums(s, f))
    <3>1. IsFiniteSet(s) /\ Cardinality(s) \in Nat /\ Cardinality(s) < Cardinality(U)
      BY <2>3, <2>4, FS_Subset, FS_CardinalityType
    <3>2. Cardinality(s) \notin Bad
      <4> HIDE DEF Bad
      <4>1. n \in Nat
        BY <2>1 DEF Bad
      <4> QED BY <2>1, <2>2, <3>1, <4>1
    <3>3. s \in SUBSET S
      OBVIOUS
    <3>4. \E f : Sums(s, f)
      BY <3>1, <3>2, <3>3
    <3> QED BY <3>1, <3>4
  <2>5. ASSUME NEW s \in SUBSET U, s # {}
        PROVE  Rest(s) \in SUBSET U /\ Rest(s) # U
    BY <2>5, PickIn
  <2>6. ASSUME NEW s \in SUBSET U, s # U
        PROVE  Val(s) = IF s = {} THEN 0 ELSE Floor(Pick(s)) + Val(Rest(s))
    <3> DEFINE h == CHOOSE f : Sums(s, f)
    <3>1. Sums(s, h) /\ IsFiniteSet(s)
      BY <2>4, <2>6
    <3>2. h[s] = IF s = {} THEN 0 ELSE Floor(Pick(s)) + h[Rest(s)]
      BY <3>1, SumsAt
    <3>3. CASE s = {}
      BY <3>2, <3>3
    <3>4. CASE s # {}
      <4> DEFINE k == CHOOSE f : Sums(Rest(s), f)
      <4>1. Sums(Rest(s), k)
        BY <2>4, <2>5, <3>4
      <4>2. Rest(s) \in SUBSET s
        OBVIOUS
      <4> HIDE DEF h, k, Rest
      <4>3. h[Rest(s)] = k[Rest(s)]
        BY <3>1, <4>1, <4>2, SumsAgree
      <4> QED BY <3>2, <3>4, <4>3 DEF h, k
    <3> QED BY <3>3, <3>4
  <2> DEFINE f == [s \in SUBSET U |-> IF s = {} THEN 0 ELSE Floor(Pick(s)) + Val(Rest(s))]
  <2>7. ASSUME NEW s \in SUBSET U, s # {}
        PROVE  f[Rest(s)] = Val(Rest(s))
    BY <2>5, <2>6, <2>7
  <2>8. f = [s \in SUBSET U |-> IF s = {} THEN 0 ELSE Floor(Pick(s)) + f[Rest(s)]]
    <3>1. f = [s \in SUBSET U |-> IF s = {} THEN 0 ELSE Floor(Pick(s)) + Val(Rest(s))]
      OBVIOUS
    <3> HIDE DEF f, Val, Rest
    <3> QED BY <2>7, <3>1, Zenon
  <2>9. Sums(U, f)
    BY <2>8 DEF Sums
  <2> QED BY <2>2, <2>9
<1>2. S \in SUBSET S /\ Cardinality(S) \in Nat
  BY FS_CardinalityType
<1> QED BY <1>1, <1>2

\* A sum is 0, or an element and the sum of the rest.
LEMMA SumUnfolds ==
  ASSUME NEW S, IsFiniteSet(S)
  PROVE  Sum(S) = IF S = {} THEN 0 ELSE Floor(Pick(S)) + Sum(S \ {Pick(S)})
<1> DEFINE h == CHOOSE f : Sums(S, f)
           R == S \ {Pick(S)}
           k == CHOOSE f : Sums(R, f)
<1>1. IsFiniteSet(R) /\ R \in SUBSET S
  BY FS_Subset
<1>2. Sums(S, h)
  BY SumsExist
<1>3. Sums(R, k)
  BY <1>1, SumsExist
<1>4. h[S] = IF S = {} THEN 0 ELSE Floor(Pick(S)) + h[R]
  BY <1>2, SumsAt
<1>5. Sum(S) = h[S] /\ Sum(R) = k[R]
  BY SumIs
<1> HIDE DEF h, k, R
<1>6. h[R] = k[R]
  BY <1>1, <1>2, <1>3, SumsAgree
<1> QED BY <1>4, <1>5, <1>6 DEF R

LEMMA FloorType == ASSUME NEW n \in Nat PROVE BaseOf(n) \in Nat /\ Floor(n) \in Nat
<1>1. baseDelays \in Seq(Nat) /\ Len(baseDelays) \in Nat \ {0}
  BY RetryAssumption
<1>2. BaseOf(n) \in Nat
  BY <1>1 DEF BaseOf
<1> QED BY <1>2 DEF Floor

LEMMA SumType ==
  ASSUME NEW S \in SUBSET Nat, IsFiniteSet(S)
  PROVE  Sum(S) \in Nat
<1> DEFINE Bad == {n \in Nat : \E U \in SUBSET S : Cardinality(U) = n /\ Sum(U) \notin Nat}
<1>1. ASSUME Bad # {} PROVE FALSE
  <2>1. PICK n \in Bad : \A m \in Bad : n <= m
    BY <1>1, LeastOf
  <2>2. PICK U \in SUBSET S : Cardinality(U) = n /\ Sum(U) \notin Nat
    BY <2>1
  <2>3. IsFiniteSet(U)
    BY FS_Subset
  <2>4. U # {} /\ Sum(U) = Floor(Pick(U)) + Sum(U \ {Pick(U)})
    BY <2>2, <2>3, SumUnfolds
  <2>5. Pick(U) \in Nat /\ Floor(Pick(U)) \in Nat
    BY <2>4, PickIn, FloorType
  <2>6. Sum(U \ {Pick(U)}) \notin Nat
    BY <2>2, <2>4, <2>5
  <2>7. Cardinality(U \ {Pick(U)}) \in Nat /\ Cardinality(U \ {Pick(U)}) < n
    BY <2>2, <2>3, <2>4, PickLess
  <2>8. Cardinality(U \ {Pick(U)}) \in Bad
    <3>1. U \ {Pick(U)} \in SUBSET S
      OBVIOUS
    <3> QED BY <2>6, <2>7, <3>1
  <2> HIDE DEF Bad
  <2>9. n <= Cardinality(U \ {Pick(U)}) /\ n \in Nat
    BY <2>1, <2>8 DEF Bad
  <2> QED BY <2>7, <2>9
<1>2. S \in SUBSET S /\ Cardinality(S) \in Nat
  BY FS_CardinalityType
<1> QED BY <1>1, <1>2

\* An element more adds its floor, whatever the order of the fold.
LEMMA SumAdds ==
  ASSUME NEW S \in SUBSET Nat, IsFiniteSet(S), NEW x \in Nat, x \notin S
  PROVE  Sum(S \cup {x}) = Floor(x) + Sum(S)
<1> DEFINE Wrong(U, z) == /\ IsFiniteSet(U) /\ z \notin U
                          /\ Sum(U \cup {z}) # Floor(z) + Sum(U)
           Bad == {n \in Nat : \E U \in SUBSET Nat, z \in Nat : Cardinality(U) = n /\ Wrong(U, z)}
<1>1. ASSUME Bad # {} PROVE FALSE
  <2>1. PICK n \in Bad : \A m \in Bad : n <= m
    BY <1>1, LeastOf
  <2>2. PICK U \in SUBSET Nat, z \in Nat : Cardinality(U) = n /\ Wrong(U, z)
    BY <2>1
  <2> DEFINE T == U \cup {z}
             y == Pick(T)
             V == U \ {y}
  <2>3. IsFiniteSet(T) /\ T # {} /\ T \in SUBSET Nat
    BY <2>2, FS_AddElement
  <2>4. Sum(T) = Floor(y) + Sum(T \ {y}) /\ y \in T
    BY <2>3, SumUnfolds, PickIn
  <2>5. y # z /\ y \in U
    <3>1. ASSUME y = z PROVE FALSE
      <4>1. T \ {y} = U
        BY <2>2, <3>1
      <4> QED BY <2>2, <2>4, <3>1, <4>1
    <3> QED BY <2>4, <3>1
  <2>6. /\ T \ {y} = V \cup {z} /\ V \cup {y} = U
        /\ V \in SUBSET Nat /\ IsFiniteSet(V) /\ y \notin V /\ z \notin V
    <3> HIDE DEF y
    <3> QED BY <2>2, <2>5, FS_Subset
  <2>7. Cardinality(V) \in Nat /\ Cardinality(V) < n
    <3>1. Cardinality(V) = Cardinality(U) - 1 /\ Cardinality(U) \in Nat
      BY <2>2, <2>5, FS_RemoveElement, FS_CardinalityType
    <3> QED BY <2>2, <2>6, <3>1, FS_CardinalityType
  <2>8. Cardinality(V) \notin Bad
    <3> HIDE DEF Bad, V
    <3>1. n \in Nat
      BY <2>1 DEF Bad
    <3> QED BY <2>1, <2>7, <3>1
  <2>9. \A a \in Nat : ~Wrong(V, a)
    <3> HIDE DEF V, Wrong
    <3> QED BY <2>6, <2>7, <2>8
  <2>10. y \in Nat
    BY <2>3, <2>4
  <2> HIDE DEF Bad, y, V
  <2>11. Sum(V \cup {z}) = Floor(z) + Sum(V) /\ Sum(V \cup {y}) = Floor(y) + Sum(V)
    BY <2>6, <2>9, <2>10
  <2>12. Floor(z) \in Nat /\ Floor(y) \in Nat /\ Sum(V) \in Nat
    BY <2>6, <2>10, FloorType, SumType
  <2>13. Sum(U \cup {z}) = Floor(z) + Sum(U)
    BY <2>4, <2>6, <2>11, <2>12
  <2> QED BY <2>2, <2>13
<1>2. Cardinality(S) \in Nat
  BY FS_CardinalityType
<1> QED BY <1>1, <1>2

\* A larger set has at least the sum.
LEMMA SumGrows ==
  ASSUME NEW T \in SUBSET Nat, IsFiniteSet(T), NEW S \in SUBSET T
  PROVE  Sum(S) <= Sum(T)
<1> DEFINE Wrong(U) == U \in SUBSET T /\ ~(Sum(S) <= Sum(S \cup U))
           Bad == {n \in Nat : \E U \in SUBSET T : Cardinality(U) = n /\ Wrong(U)}
<1>1. ASSUME Bad # {} PROVE FALSE
  <2>1. PICK n \in Bad : \A m \in Bad : n <= m
    BY <1>1, LeastOf
  <2>2. PICK U \in SUBSET T : Cardinality(U) = n /\ Wrong(U)
    BY <2>1
  <2>3. IsFiniteSet(U) /\ IsFiniteSet(S)
    BY FS_Subset
  <2>4. Sum(S) \in Nat
    BY <2>3, SumType
  <2>5. U # {}
    <3>1. S \cup {} = S
      OBVIOUS
    <3>2. Sum(S) <= Sum(S)
      BY <2>4
    <3> QED BY <2>2, <3>1, <3>2
  <2> DEFINE x == Pick(U)
             V == U \ {x}
  <2>6. /\ x \in U /\ IsFiniteSet(V) /\ Cardinality(V) \in Nat /\ Cardinality(V) < n
        /\ V \in SUBSET T
    BY <2>2, <2>3, <2>5, PickLess
  <2>7. Cardinality(V) \notin Bad
    <3> HIDE DEF Bad, V
    <3>1. n \in Nat
      BY <2>1 DEF Bad
    <3> QED BY <2>1, <2>6, <3>1
  <2>8. Sum(S) <= Sum(S \cup V)
    <3>1. ~Wrong(V)
      <4> HIDE DEF V, Wrong
      <4> QED BY <2>6, <2>7
    <3> HIDE DEF V
    <3> QED BY <2>6, <3>1
  <2> DEFINE P == S \cup V
  <2>9. IsFiniteSet(P) /\ P \in SUBSET Nat /\ x \in Nat
    BY <2>3, <2>6, FS_Union
  <2>10. S \cup U = IF x \in P THEN P ELSE P \cup {x}
    BY <2>6
  <2> HIDE DEF x, P
  <2>11. Sum(P) \in Nat /\ Floor(x) \in Nat
    BY <2>9, SumType, FloorType
  <2>12. Sum(P) <= Sum(S \cup U)
    <3>1. x \notin P => Sum(P \cup {x}) = Floor(x) + Sum(P)
      BY <2>9, SumAdds
    <3> QED BY <2>10, <2>11, <3>1
  <2>13. Sum(S \cup U) \in Nat
    <3>1. S \cup U \in SUBSET Nat /\ IsFiniteSet(S \cup U)
      BY <2>3, FS_Union
    <3> QED BY <3>1, SumType
  <2>14. Sum(S) <= Sum(P)
    BY <2>8 DEF P
  <2>15. Sum(S) <= Sum(S \cup U)
    BY <2>4, <2>11, <2>12, <2>13, <2>14
  <2> QED BY <2>2, <2>15
<1>2. T \in SUBSET T /\ Cardinality(T) \in Nat /\ S \cup T = T
  BY FS_CardinalityType
<1> QED BY <1>1, <1>2

-----------------------------------------------------------------------------
(* The patience of a dead letter.                                           *)

\* The shortest time the backoffs of the first n attempts take.
Waited(n, without) == Sum((1..n) \ without)

LEMMA WaitedGrows ==
  ASSUME NEW m \in Nat, NEW n \in Nat, m <= n, NEW without, NEW more, without \subseteq more
  PROVE  /\ Waited(m, more) \in Nat /\ Waited(n, without) \in Nat
         /\ Waited(m, more) <= Waited(n, without)
<1> DEFINE S == (1..m) \ more
           T == (1..n) \ without
<1>1. IsFiniteSet(S) /\ IsFiniteSet(T) /\ T \in SUBSET Nat /\ S \in SUBSET T
  <2>1. IsFiniteSet(1..m) /\ IsFiniteSet(1..n)
    BY FS_Interval
  <2> QED BY <2>1, FS_Subset
<1> HIDE DEF S, T
<1>2. S \in SUBSET Nat
  BY <1>1
<1>3. Sum(S) \in Nat /\ Sum(T) \in Nat /\ Sum(S) <= Sum(T)
  BY <1>1, <1>2, SumType, SumGrows
<1> QED BY <1>3 DEF Waited, S, T

\* An attempt more takes its own backoff more, or nothing if it was cut short.
LEMMA WaitedNext ==
  ASSUME NEW n \in Nat, n # 0, NEW without
  PROVE  /\ n - 1 \in Nat
         /\ Waited(n, without \cup {n}) = Waited(n - 1, without)
         /\ Waited(n - 1, without \cup {n}) = Waited(n - 1, without)
         /\ n \notin without => Waited(n, without) = Waited(n - 1, without) + Floor(n)
<1>1. n - 1 \in Nat
  OBVIOUS
<1> DEFINE S == (1..(n - 1)) \ without
<1>2. (1..n) \ (without \cup {n}) = S /\ (1..(n - 1)) \ (without \cup {n}) = S
  OBVIOUS
<1>3. ASSUME n \notin without
      PROVE  Sum((1..n) \ without) = Sum(S) + Floor(n)
  <2>1. (1..n) \ without = S \cup {n} /\ n \notin S /\ S \in SUBSET Nat
    BY <1>3
  <2>2. IsFiniteSet(S)
    <3>1. IsFiniteSet(1..(n - 1))
      BY <1>1, FS_Interval
    <3> QED BY <3>1, FS_Subset
  <2> HIDE DEF S
  <2>3. Sum(S \cup {n}) = Floor(n) + Sum(S)
    BY <2>1, <2>2, SumAdds
  <2>4. Sum(S) \in Nat /\ Floor(n) \in Nat
    BY <2>1, <2>2, SumType, FloorType
  <2> QED BY <2>1, <2>3, <2>4
<1> QED BY <1>1, <1>2, <1>3 DEF Waited

LEMMA PatienceIs == ASSUME NEW without PROVE Patience(without) = Waited(maxAttempts - 1, without)
BY DEF Patience, Waited, Sum

\* What passed since the first attempt covers the backoffs waited for so far: those of the
\* attempts before the one being made and the time it has taken; after it, what it would
\* cover if the message were taken up at once, and all of them once the wait is over.  The
\* history stops counting at Patience({}).
TimeServed ==
  \/ elapsed >= Patience({})
  \/ /\ pc = "sending" => elapsed >= Waited(attempt_count - 1, early) + spent
     /\ pc = "idle" /\ status \notin Terminal =>
          /\ elapsed >= Waited(attempt_count, early \cup {attempt_count})
          /\ elapsed + wait >= Waited(attempt_count, early)
     /\ status = "dead_lettered" => elapsed >= Waited(attempt_count - 1, early)

\* Whether or not the wait is cut short, what has passed covers the attempts waited for.
LEMMA TakenUp ==
  ASSUME TypeOK, Early,
         elapsed >= Waited(attempt_count, early \cup {attempt_count}),
         elapsed + wait >= Waited(attempt_count, early)
  PROVE  /\ elapsed >= Waited(attempt_count, early')
         /\ elapsed >= Waited(attempt_count, early' \cup {attempt_count})
<1>1. attempt_count \in Nat /\ elapsed \in Nat /\ wait \in Nat
  BY DEF TypeOK
<1>2. elapsed >= Waited(attempt_count, early')
  BY <1>1 DEF Early
<1>3. /\ Waited(attempt_count, early' \cup {attempt_count}) <= Waited(attempt_count, early')
      /\ Waited(attempt_count, early' \cup {attempt_count}) \in Nat
      /\ Waited(attempt_count, early') \in Nat
  <2>1. early' \subseteq early' \cup {attempt_count} /\ attempt_count <= attempt_count
    BY <1>1
  <2> QED BY <1>1, <2>1, WaitedGrows
<1> QED BY <1>1, <1>2, <1>3

\* The delay an attempt was given, and the wait after it.
LEMMA BackoffWaited ==
  ASSUME TypeOK, Attempt
  PROVE  /\ status' = "deferred" => /\ delay' \in withJitter(BaseOf(attempt_count))
                                    /\ wait' \in Nat /\ spent + wait' >= delay'
                                    /\ spent + wait' >= Floor(attempt_count)
         /\ status' # "deferred" => delay' = delay
<1>1. kind' \in Soft => Retry
  BY DEF Attempt, Soft
<1>2. kind' \notin Soft => status' \in {"delivered", "bounced", "failed"} /\ delay' = delay
  BY AttemptOutcome DEF Soft
<1>3. /\ spent \in Nat /\ attempt_count \in Nat
      /\ BaseOf(attempt_count) \in Nat /\ Floor(attempt_count) \in Nat
  BY FloorType DEF TypeOK
<1>4. ASSUME Retry, status' = "deferred"
      PROVE  /\ delay' \in withJitter(BaseOf(attempt_count))
             /\ wait' \in Nat /\ spent + wait' >= delay'
             /\ spent + wait' >= Floor(attempt_count)
  <2>1. PICK d \in withJitter(BaseOf(attempt_count)) :
          delay' = d /\ wait' = IF spent < d THEN d - spent ELSE 0
    BY <1>4 DEF Retry
  <2>2. d \in Nat /\ d >= Floor(attempt_count)
    BY <1>3, <2>1 DEF withJitter, Floor
  <2>3. wait' \in Nat /\ spent + wait' >= d
    BY <1>3, <2>1, <2>2
  <2> QED BY <1>3, <2>1, <2>2, <2>3
<1>5. Retry /\ status' # "deferred" => delay' = delay
  BY DEF Retry
<1> QED BY <1>1, <1>2, <1>4, <1>5

LEMMA TimeStep ==
  ASSUME TypeOK, AttemptsPaidFor, TimeServed, [Next]_vars
  PROVE  TimeServed'
<1> DEFINE n == attempt_count
<1>0. /\ n \in Nat /\ elapsed \in Nat /\ wait \in Nat /\ spent \in Nat
      /\ Waited(n, early) \in Nat /\ Waited(n, early \cup {n}) \in Nat
      /\ pc = "sending" => n # 0 /\ n \notin early
      /\ pc \in {"idle", "sending"}
  BY WaitedGrows DEF TypeOK, AttemptsPaidFor
<1>a. /\ elapsed' \in Nat /\ elapsed' >= elapsed
      /\ Patience({}) \in Nat
  <2>1. elapsed' \in {elapsed, elapsed + 1}
    <3>1. CASE Bystander
      BY <3>1, BystanderLeaves
    <3>2. CASE Tick \/ Mark \/ Attempt \/ Crash
      BY <3>2 DEF Tick, Mark, Attempt, Crash
    <3>3. CASE \E pending \in BOOLEAN : Hold(pending) \/ Begin(pending)
      BY <3>3 DEF Hold, Begin
    <3> QED BY <3>1, <3>2, <3>3, Steps
  <2>2. maxAttempts - 1 \in Nat
    BY RetryAssumption
  <2> QED BY <1>0, <2>1, <2>2, WaitedGrows, PatienceIs
<1>b. CASE elapsed >= Patience({})
  BY <1>0, <1>a, <1>b DEF TimeServed
<1>c. CASE ~(elapsed >= Patience({}))
  <2>1. /\ pc = "sending" => elapsed >= Waited(n - 1, early) + spent
        /\ pc = "idle" /\ status \notin Terminal =>
             /\ elapsed >= Waited(n, early \cup {n})
             /\ elapsed + wait >= Waited(n, early)
        /\ status = "dead_lettered" => elapsed >= Waited(n - 1, early)
    BY <1>c DEF TimeServed
  <2>2. n # 0 => /\ n - 1 \in Nat /\ Waited(n - 1, early) \in Nat
                 /\ Waited(n, early \cup {n}) = Waited(n - 1, early)
                 /\ Waited(n - 1, early \cup {n}) = Waited(n - 1, early)
                 /\ n \notin early => Waited(n, early) = Waited(n - 1, early) + Floor(n)
    BY <1>0, WaitedNext, WaitedGrows
  <2>3. CASE Bystander
    <3>1. UNCHANGED <<pc, status, attempt_count, wait, spent, elapsed, early>>
      BY <2>3, BystanderLeaves
    <3> QED BY <2>1, <3>1 DEF TimeServed
  <2>4. CASE Mark
    <3>1. UNCHANGED <<pc, attempt_count, spent, elapsed>>
      BY <2>4 DEF Mark
    <3>2. CASE UNCHANGED <<status, wait, early>>
      BY <2>1, <3>1, <3>2 DEF TimeServed
    <3>3. CASE status = "deferred" /\ status' = "queued" /\ wait' = 0 /\ Early
      <4>1. pc = "idle" /\ status \notin Terminal
        BY <1>0, <3>3 DEF TypeOK, Terminal
      <4>2. elapsed >= Waited(n, early') /\ elapsed >= Waited(n, early' \cup {n})
        BY <2>1, <3>3, <4>1, TakenUp
      <4>3. elapsed + wait' >= Waited(n, early')
        BY <1>0, <3>3, <4>2
      <4> QED BY <3>1, <3>3, <4>1, <4>2, <4>3 DEF TimeServed
    <3> QED BY <2>4, <3>2, <3>3 DEF Mark, MarkQueued
  <2>5. ASSUME NEW pending \in BOOLEAN, Hold(pending)
        PROVE  TimeServed'
    <3>1. /\ UNCHANGED <<pc, attempt_count, spent, elapsed>>
          /\ pc = "idle" /\ status \notin Terminal /\ Early
          /\ status' = "deferred" /\ wait' \in Nat
      BY <2>5, RetryAssumption DEF Hold, HoldCount, TakeUp
    <3>2. elapsed >= Waited(n, early') /\ elapsed >= Waited(n, early' \cup {n})
      BY <2>1, <3>1, TakenUp
    <3>3. Waited(n, early') \in Nat
      BY <1>0, WaitedGrows
    <3>4. elapsed + wait' >= Waited(n, early')
      BY <1>0, <3>1, <3>2, <3>3
    <3> QED BY <3>1, <3>2, <3>4 DEF TimeServed
  <2>6. ASSUME NEW pending \in BOOLEAN, Begin(pending)
        PROVE  TimeServed'
    <3>1. /\ UNCHANGED elapsed /\ Early
          /\ pc = "idle" /\ status \notin Terminal
          /\ status' = "sending" /\ pc' = "sending" /\ spent' = 0 /\ attempt_count' = n + 1
      BY <2>6 DEF Begin, TakeUp
    <3>2. elapsed >= Waited(n, early')
      BY <2>1, <3>1, TakenUp
    <3>3. attempt_count' - 1 = n /\ Waited(n, early') \in Nat
      BY <1>0, <3>1, WaitedGrows
    <3>4. elapsed' >= Waited(attempt_count' - 1, early') + spent'
      BY <1>0, <3>1, <3>2, <3>3
    <3> QED BY <3>1, <3>4 DEF TimeServed
  <2>7. CASE Crash
    <3>1. /\ UNCHANGED <<elapsed, attempt_count, status, wait>> /\ early' = early \cup {n}
          /\ pc = "sending" /\ pc' = "idle" /\ status = "sending"
      BY <2>7 DEF Crash, TypeOK
    <3>2. elapsed >= Waited(n, early') /\ early' \cup {n} = early'
      BY <1>0, <2>1, <2>2, <3>1
    <3>3. elapsed + wait >= Waited(n, early') /\ Waited(n, early') \in Nat
      BY <1>0, <3>1, <3>2, WaitedGrows
    <3> QED BY <3>1, <3>2, <3>3 DEF TimeServed
  <2>8. CASE Attempt
    <3>1. /\ UNCHANGED <<elapsed, attempt_count, early>>
          /\ pc = "sending" /\ pc' = "idle"
      BY <2>8 DEF Attempt
    <3>2. /\ status' = "deferred" => wait' \in Nat /\ spent + wait' >= Floor(n)
          /\ status' \in {"deferred"} \cup Terminal
      BY <2>8, BackoffWaited, AttemptOutcome DEF Terminal
    <3>3. elapsed >= Waited(n - 1, early) + spent /\ elapsed >= Waited(n - 1, early)
      BY <1>0, <2>1, <2>2, <3>1
    <3>4. elapsed >= Waited(n, early \cup {n})
      BY <1>0, <2>2, <3>1, <3>3
    <3>5. status' = "deferred" => elapsed + wait' >= Waited(n, early)
      BY <1>0, <2>2, <3>1, <3>2, <3>3, FloorType
    <3> QED BY <3>1, <3>2, <3>3, <3>4, <3>5 DEF TimeServed
  <2>9. CASE Tick
    <3>1. /\ UNCHANGED <<pc, status, attempt_count, early>>
          /\ wait' \in Nat /\ wait' >= wait - 1
          /\ spent' \in Nat /\ spent' <= spent + 1
      BY <1>0, <2>9 DEF Tick, outcome
    <3>2. n # 0 => elapsed' = elapsed + 1
      BY <1>0, <1>a, <1>c, <2>9 DEF Tick
    <3>3. n = 0 => Waited(n, early) = 0
      <4>1. n = 0 => (1..n) \ early = {}
        BY <1>0
      <4>2. Sum({}) = 0
        BY SumUnfolds, FS_EmptySet
      <4> QED BY <4>1, <4>2 DEF Waited
    <3>4. pc = "sending" => elapsed' >= Waited(n - 1, early) + spent'
      BY <1>0, <2>1, <2>2, <3>1, <3>2
    <3>5. pc = "idle" /\ status \notin Terminal =>
             /\ elapsed' >= Waited(n, early \cup {n})
             /\ elapsed' + wait' >= Waited(n, early)
      BY <1>0, <1>a, <2>1, <3>1, <3>2, <3>3
    <3>6. status = "dead_lettered" => elapsed' >= Waited(n - 1, early)
      <4>1. status = "dead_lettered" => n # 0
        BY <1>0, RetryAssumption DEF AttemptsPaidFor
      <4> QED BY <1>0, <2>1, <2>2, <3>2, <4>1
    <3> QED BY <3>1, <3>4, <3>5, <3>6 DEF TimeServed
  <2> QED BY <2>3, <2>4, <2>5, <2>6, <2>7, <2>8, <2>9, Steps
<1> QED BY <1>b, <1>c

-----------------------------------------------------------------------------
(* What each fault can cut short.                                           *)

\* Entries of the message, and the one the poller is about to add.
EntriesWith(n, p) == IF p = "idle" THEN n ELSE n + 1
There == EntriesWith(entries, poller)

\* The message is owed one of them: it is to be sent, or the poller has it in its hand.
Needed ==
  \/ status \in {"queued", "sending"}
  \/ status = "deferred" /\ wait = 0 /\ poller = "due"

\* Every wait that was cut short, and every entry beyond the one that is needed, goes back
\* to a fault of its own.
FaultsPaidFor ==
  /\ Cardinality(early) <= faults
  /\ Cardinality(early) + There <= faults + IF Needed THEN 1 ELSE 0

LEMMA FewerEntries ==
  ASSUME NEW n \in Nat, NEW m \in Nat, m <= n, NEW p, NEW q, q = "idle" \/ q = p
  PROVE  /\ EntriesWith(n, p) \in Nat /\ EntriesWith(m, q) \in Nat
         /\ EntriesWith(m, q) <= EntriesWith(n, p)
BY DEF EntriesWith

LEMMA StillPaid ==
  ASSUME NEW n \in Nat, NEW m \in Nat, m <= n, NEW a \in Nat, NEW f \in Nat, NEW b \in BOOLEAN,
         a + n <= f + IF b THEN 1 ELSE 0
  PROVE  a + m <= f + IF b THEN 1 ELSE 0
OBVIOUS

LEMMA FaultsStep ==
  ASSUME TypeOK, FaultsPaidFor, [Next]_vars
  PROVE  FaultsPaidFor'
<1> DEFINE c == Cardinality(early)
<1>0. /\ c \in Nat /\ faults \in Nat /\ entries \in Nat /\ wait \in Nat
      /\ Cardinality(early \cup {attempt_count}) \in {c, c + 1}
      /\ poller \in {"idle", "due", "marked"}
      /\ wait > 0 => status = "deferred"
      /\ pc = "sending" => status = "sending"
      /\ status \in Terminal \cup {"queued", "sending", "deferred"}
      /\ fresh \in 0..entries
  BY EarlyIsFinite, RetryAssumption DEF TypeOK
<1>1. c <= faults /\ c + There <= faults + IF Needed THEN 1 ELSE 0
  BY DEF FaultsPaidFor
<1>2. Early => /\ Cardinality(early') \in {c, c + 1}
               /\ wait = 0 => Cardinality(early') = c
  BY <1>0 DEF Early
<1> HIDE DEF c
<1>3. CASE Change \/ UNCHANGED vars
  <2>1. UNCHANGED <<status, wait, entries, poller, early, faults>>
    BY <1>3 DEF Change, vars, stream, history
  <2> QED BY <1>1, <2>1 DEF FaultsPaidFor, There, EntriesWith, Needed, c
<1>4. CASE Tick
  <2>1. UNCHANGED <<status, entries, poller, early, faults>> /\ (wait = 0 => wait' = 0)
    BY <1>4 DEF Tick, stream
  <2>2. There' = There /\ (Needed => Needed')
    BY <2>1 DEF There, EntriesWith, Needed
  <2>3. c + There' <= faults + IF Needed' THEN 1 ELSE 0
    BY <1>0, <1>1, <2>2 DEF There, EntriesWith
  <2> QED BY <1>1, <2>1, <2>3 DEF FaultsPaidFor, c
<1>5. CASE Poll
  <2>1. /\ UNCHANGED <<status, wait, entries, early, faults>>
        /\ poller = "idle" /\ poller' = "due" /\ status = "deferred" /\ wait = 0
    BY <1>5 DEF Poll, stream, history
  <2>2. There' = There + 1 /\ Needed' /\ ~Needed
    BY <1>0, <2>1 DEF There, EntriesWith, Needed
  <2> QED BY <1>0, <1>1, <2>1, <2>2 DEF FaultsPaidFor, There, EntriesWith, c
<1>6. CASE Mark
  <2>1. UNCHANGED entries /\ poller = "due"
    BY <1>6 DEF Mark, stream
  <2>2. CASE poller' = "marked" /\ MarkQueued /\ UNCHANGED faults
    <3>1. There' = There /\ There \in Nat /\ There >= 1
      BY <1>0, <2>1, <2>2 DEF There, EntriesWith
    <3>2. CASE status = "deferred"
      <4>1. status' = "queued" /\ Early
        BY <2>2, <3>2 DEF MarkQueued
      <4>2. Needed' /\ (Needed <=> wait = 0)
        BY <2>1, <3>2, <4>1 DEF Needed
      <4> QED BY <1>0, <1>1, <1>2, <2>2, <3>1, <4>1, <4>2 DEF FaultsPaidFor
    <3>3. CASE status # "deferred"
      <4>1. UNCHANGED <<status, wait, early>> /\ (Needed <=> Needed')
        BY <2>2, <3>3 DEF MarkQueued, Needed
      <4> QED BY <1>0, <1>1, <2>2, <3>1, <4>1 DEF FaultsPaidFor, c
    <3> QED BY <3>2, <3>3
  <2>3. CASE poller' = "idle" /\ faults' = faults + 1 /\ UNCHANGED early
    <3>1. There' = There - 1 /\ There \in Nat
      BY <1>0, <2>1, <2>3 DEF There, EntriesWith
    <3> QED BY <1>0, <1>1, <2>3, <3>1 DEF FaultsPaidFor, c
  <2> QED BY <1>6, <2>2, <2>3 DEF Mark
<1>7. CASE Enqueue
  <2>1. /\ UNCHANGED <<status, wait, early>> /\ poller = "marked" /\ poller' = "idle"
        /\ \/ entries' = entries + 1 /\ faults' = faults
           \/ entries' = entries /\ faults' = faults + 1
    BY <1>7 DEF Enqueue, stream
  <2>2. (Needed <=> Needed') /\ There \in Nat
        /\ \/ There' = There /\ faults' = faults
           \/ There' = There - 1 /\ faults' = faults + 1
    BY <1>0, <2>1 DEF Needed, There, EntriesWith
  <2> QED BY <1>0, <1>1, <2>1, <2>2 DEF FaultsPaidFor, c
<1>8. ASSUME Fault \/ NoFault, entries' \in Nat, entries' <= entries
      PROVE  /\ There \in Nat /\ There' \in Nat /\ There' <= There
             /\ faults' = faults \/ faults' = faults + 1
             /\ NoFault => faults' = faults /\ poller' = poller
             /\ Fault => faults' = faults + 1
             /\ NoFault /\ entries' = entries - 1 => There' = There - 1
  <2>1. \/ poller' = poller /\ faults' = faults /\ NoFault
        \/ poller' \in {poller, "idle"} /\ faults' = faults + 1 /\ Fault
    BY <1>8 DEF Fault, NoFault
  <2>2. Fault => faults' = faults + 1
    BY DEF Fault
  <2>3. NoFault => faults' = faults /\ poller' = poller
    BY DEF NoFault
  <2> HIDE DEF Fault, NoFault
  <2>4. There \in Nat /\ There' \in Nat /\ There' <= There
    <3>1. entries \in Nat /\ entries' \in Nat /\ entries' <= entries
      BY <1>0, <1>8
    <3>2. poller' = "idle" \/ poller' = poller
      BY <2>1
    <3> QED BY <3>1, <3>2, FewerEntries DEF There
  <2>5. NoFault /\ entries' = entries - 1 => There' = There - 1
    BY <1>0, <2>3 DEF There, EntriesWith
  <2> QED BY <2>1, <2>2, <2>3, <2>4, <2>5
<1>9. ASSUME NEW pending \in BOOLEAN, Abandon(pending)
      PROVE  FaultsPaidFor'
  <2>1. Fault /\ entries' = entries /\ early' = early
    BY <1>9 DEF Abandon, LeavePending
  <2> QED BY <1>0, <1>1, <1>8, <2>1 DEF FaultsPaidFor, c
<1>10. ASSUME NEW pending \in BOOLEAN, Skip(pending)
       PROVE  FaultsPaidFor'
  <2>1. /\ UNCHANGED <<status, wait, early>> /\ TakeUp(pending) /\ AckOrFail
    BY <1>10 DEF Skip
  <2>2. entries \in Nat /\ entries > 0
    BY <1>0, <2>1, TakeUpType
  <2>3. /\ entries' \in Nat /\ entries' <= entries /\ (Fault \/ NoFault)
    BY <2>1, <2>2, AckType
  <2>4. CASE NoFault
    <3>1. faults' = faults /\ poller' = poller /\ There' <= There
      BY <1>8, <2>3, <2>4
    <3>2. Needed' <=> Needed
      BY <2>1, <3>1 DEF Needed
    <3>3. There \in Nat /\ There' \in Nat
      BY <1>8, <2>3
    <3>4. c + There' <= faults + IF Needed THEN 1 ELSE 0
      BY <1>0, <1>1, <3>1, <3>3, StillPaid
    <3> QED BY <1>1, <2>1, <3>1, <3>2, <3>4 DEF FaultsPaidFor, c
  <2>5. CASE Fault
    <3>1. faults' = faults + 1 /\ There' <= There /\ There \in Nat /\ There' \in Nat
      BY <1>8, <2>3, <2>5
    <3> QED BY <1>0, <1>1, <2>1, <3>1 DEF FaultsPaidFor, c
  <2> QED BY <2>3, <2>4, <2>5
<1>11. ASSUME NEW pending \in BOOLEAN, Hold(pending)
       PROVE  FaultsPaidFor'
  <2>1. Early /\ TakeUp(pending) /\ AckOrFail
    BY <1>11 DEF Hold
  <2>2. entries > 0
    BY <1>0, <2>1, TakeUpType
  <2>3. /\ entries' \in Nat /\ entries' <= entries
        /\ \/ entries' = entries - 1 /\ NoFault
           \/ entries' = entries /\ Fault
    BY <1>0, <2>1, <2>2, AckType
  <2>4. There \in Nat /\ There >= 1
    BY <1>0, <2>2 DEF There, EntriesWith
  <2>5. wait > 0 => ~Needed
    BY <1>0 DEF Needed
  <2>6. \/ There' = There - 1 /\ faults' = faults
        \/ There' \in Nat /\ There' <= There /\ faults' = faults + 1
    BY <1>8, <2>3
  <2> QED BY <1>0, <1>1, <1>2, <2>1, <2>4, <2>5, <2>6 DEF FaultsPaidFor
<1>12. ASSUME NEW pending \in BOOLEAN, Begin(pending)
       PROVE  FaultsPaidFor'
  <2>1. Early /\ TakeUp(pending) /\ UNCHANGED <<entries, poller, faults>> /\ status' = "sending"
    BY <1>12 DEF Begin
  <2>2. There' = There /\ There \in Nat /\ There >= 1
    BY <1>0, <2>1, TakeUpType DEF There, EntriesWith
  <2>3. Needed' /\ (wait > 0 => ~Needed)
    BY <1>0, <2>1 DEF Needed
  <2> QED BY <1>0, <1>1, <1>2, <2>1, <2>2, <2>3 DEF FaultsPaidFor
<1>13. CASE Attempt
  <2>1. /\ pc = "sending" /\ early' = early /\ AckOrFail
    BY <1>13 DEF Attempt
  <2>2. entries > 0
    BY <2>1 DEF TypeOK
  <2>3. /\ entries' \in Nat /\ entries' <= entries
        /\ \/ entries' = entries - 1 /\ NoFault
           \/ entries' = entries /\ Fault
    BY <1>0, <2>1, <2>2, AckType
  <2>4. \/ There' = There - 1 /\ faults' = faults
        \/ There' \in Nat /\ There' <= There /\ faults' = faults + 1
    BY <1>8, <2>3
  <2>5. There \in Nat
    BY <1>0 DEF There, EntriesWith
  <2> QED BY <1>0, <1>1, <2>1, <2>4, <2>5 DEF FaultsPaidFor, c
<1>14. CASE Crash
  <2>1. /\ pc = "sending" /\ status' = status /\ Fault /\ entries' = entries
        /\ early' = early \cup {attempt_count}
    BY <1>14 DEF Crash, LeavePending
  <2>2. Needed /\ Needed'
    BY <1>0, <2>1 DEF Needed
  <2>3. There \in Nat /\ There' \in Nat /\ There' <= There /\ faults' = faults + 1
    BY <1>0, <1>8, <2>1
  <2>4. Cardinality(early') \in {c, c + 1}
    BY <1>0, <2>1
  <2> QED BY <1>0, <1>1, <2>2, <2>3, <2>4 DEF FaultsPaidFor
<1> QED BY <1>3, <1>4, <1>5, <1>6, <1>7, <1>9, <1>10, <1>11, <1>12, <1>13, <1>14 DEF Next, Process

\* A message is dead-lettered only after an outage as long as its shortest backoffs, but for
\* those cut short, one for each failed call or crash at most, whatever entries are left
\* pending, doubled or lost, for any delays and any number of attempts.
THEOREM OutagesAreSurvived == Spec => []OutageSurvived
<1> DEFINE I == TimeServed /\ FaultsPaidFor
<1>1. ASSUME Init PROVE I
  <2>1. (1..0) \ {} = {} /\ (1..0) \ ({} \cup {0}) = {} /\ Sum({}) = 0 /\ Cardinality({}) = 0
    BY SumUnfolds, FS_EmptySet
  <2>2. Waited(0, {}) = 0 /\ Waited(0, {} \cup {0}) = 0
    BY <2>1 DEF Waited
  <2>3. TimeServed
    BY <1>1, <2>2 DEF Init, TimeServed, Terminal
  <2>4. FaultsPaidFor
    BY <1>1, <2>1 DEF Init, FaultsPaidFor, There, EntriesWith, Needed
  <2> QED BY <2>3, <2>4
<1>2. IInv /\ I /\ [Next]_vars => I'
  BY TimeStep, FaultsStep DEF IInv
<1>3. IInv /\ I => OutageSurvived
  <2> SUFFICES ASSUME IInv, I, status = "dead_lettered"
               PROVE  elapsed >= Patience(early)
    BY DEF OutageSurvived, FaultsPaidFor
  <2>1. TypeOK /\ AttemptsPaidFor
    BY DEF IInv
  <2>2. /\ elapsed \in Nat /\ attempt_count - 1 \in Nat /\ maxAttempts - 1 \in Nat
        /\ maxAttempts - 1 <= attempt_count - 1
    BY <2>1, RetryAssumption DEF TypeOK, AttemptsPaidFor
  <2>3. /\ Patience(early) \in Nat /\ Patience({}) \in Nat /\ Waited(attempt_count - 1, early) \in Nat
        /\ Patience(early) <= Patience({}) /\ Patience(early) <= Waited(attempt_count - 1, early)
    BY <2>2, PatienceIs, WaitedGrows
  <2>4. elapsed >= Patience({}) \/ elapsed >= Waited(attempt_count - 1, early)
    BY DEF TimeServed
  <2> QED BY <2>2, <2>3, <2>4
<1> QED BY <1>1, <1>2, <1>3, AlwaysIInv, PTL DEF Spec

-----------------------------------------------------------------------------
(* The order of the delays.                                                 *)

LEMMA BaseGrows ==
  ASSUME Escalating, NEW n \in Nat, n > 1
  PROVE  /\ BaseOf(n - 1) \in Nat /\ BaseOf(n) \in Nat
         /\ BaseOf(n - 1) <= BaseOf(n)
         /\ n <= Len(baseDelays) => BaseOf(n - 1) < BaseOf(n) \div 2
<1>1. baseDelays \in Seq(Nat) /\ Len(baseDelays) \in Nat \ {0}
  BY RetryAssumption
<1>2. CASE n <= Len(baseDelays)
  <2>1. n - 1 \in 1..(Len(baseDelays) - 1) /\ (n - 1) + 1 = n
    BY <1>1, <1>2
  <2>2. BaseOf(n - 1) = baseDelays[n - 1] /\ BaseOf(n) = baseDelays[n]
    BY <1>1, <1>2 DEF BaseOf
  <2>3. baseDelays[n - 1] \in Nat /\ baseDelays[n] \in Nat
    BY <1>1, <1>2, <2>1
  <2>4. baseDelays[n - 1] < baseDelays[n] \div 2
    BY <2>1 DEF Escalating
  <2> QED BY <2>2, <2>3, <2>4
<1>3. CASE n > Len(baseDelays)
  BY <1>1, <1>3 DEF BaseOf
<1> QED BY <1>1, <1>2, <1>3

\* The delay chosen last is at most the base delay after the attempt it followed.
DelayIsOfThePast ==
  \/ delay = 0
  \/ pc = "idle" /\ attempt_count >= 1 /\ delay <= BaseOf(attempt_count)
  \/ pc = "sending" /\ attempt_count > 1 /\ delay <= BaseOf(attempt_count - 1)

LEMMA DelayStep ==
  ASSUME Escalating, TypeOK, AttemptsPaidFor, DelayIsOfThePast, [Next]_vars
  PROVE  /\ DelayIsOfThePast'
         /\ delay' # delay /\ attempt_count <= Len(baseDelays) => delay' > delay
<1>1. /\ attempt_count \in Nat /\ delay \in Nat /\ pc \in {"idle", "sending"}
      /\ Len(baseDelays) \in Nat
  BY RetryAssumption DEF TypeOK
<1>2. CASE Bystander \/ Tick \/ Mark \/ \E pending \in BOOLEAN : Hold(pending)
  <2>1. UNCHANGED <<pc, attempt_count, delay>>
    BY <1>2, BystanderLeaves DEF Tick, Mark, Hold, HoldCount, outcome
  <2> QED BY <2>1 DEF DelayIsOfThePast
<1>3. CASE \E pending \in BOOLEAN : Begin(pending)
  <2>1. pc = "idle" /\ pc' = "sending" /\ attempt_count' = attempt_count + 1 /\ delay' = delay
    BY <1>3 DEF Begin, TakeUp, outcome
  <2>2. attempt_count' - 1 = attempt_count
    BY <1>1, <2>1
  <2> QED BY <1>1, <2>1, <2>2 DEF DelayIsOfThePast
<1>4. CASE Attempt \/ Crash
  <2>1. pc = "sending" /\ pc' = "idle" /\ attempt_count' = attempt_count
    BY <1>4 DEF Attempt, Crash
  <2>2. delay = 0 \/ (attempt_count > 1 /\ delay <= BaseOf(attempt_count - 1))
    BY <2>1 DEF DelayIsOfThePast
  <2>3. CASE delay' = delay
    <3>1. attempt_count > 1 /\ delay <= BaseOf(attempt_count - 1) => delay <= BaseOf(attempt_count)
      BY <1>1, BaseGrows
    <3> QED BY <1>1, <2>1, <2>2, <2>3, <3>1 DEF DelayIsOfThePast
  <2>4. CASE delay' # delay
    <3>1. Attempt
      BY <1>4, <2>4 DEF Crash, outcome
    <3>2. delay' \in withJitter(BaseOf(attempt_count)) /\ delay' \in Nat
      BY <1>1, <2>4, <3>1, BackoffWaited, BackoffTyped
    <3>3. BaseOf(attempt_count) \in Nat /\ BaseOf(attempt_count) \div 2 \in Nat
      BY <1>1, FloorType DEF Floor
    <3>4. delay' >= BaseOf(attempt_count) \div 2 /\ delay' <= BaseOf(attempt_count)
      BY <3>2, <3>3 DEF withJitter
    <3>5. DelayIsOfThePast'
      BY <1>1, <2>1, <3>4 DEF DelayIsOfThePast, AttemptsPaidFor
    <3>6. attempt_count <= Len(baseDelays) => delay' > delay
      <4>1. CASE delay = 0
        BY <2>4, <3>2, <4>1
      <4>2. CASE attempt_count > 1 /\ delay <= BaseOf(attempt_count - 1)
        <5>1. BaseOf(attempt_count - 1) \in Nat
              /\ (attempt_count <= Len(baseDelays) =>
                    BaseOf(attempt_count - 1) < BaseOf(attempt_count) \div 2)
          BY <1>1, <4>2, BaseGrows
        <5> QED BY <1>1, <3>2, <3>3, <3>4, <4>2, <5>1
      <4> QED BY <2>2, <4>1, <4>2
    <3> QED BY <3>5, <3>6
  <2> QED BY <2>3, <2>4
<1> QED BY <1>2, <1>3, <1>4, Steps

\* Of the delays in backoff.go, each is longer than the one before it in spite of the
\* jitter, crashes, holds and slow attempts between them.
THEOREM DelaysKeepGrowing == ASSUME Escalating PROVE Spec => DelaysEscalate
<1>1. Init => DelayIsOfThePast
  BY DEF Init, DelayIsOfThePast
<1>2. IInv /\ DelayIsOfThePast /\ [Next]_vars => DelayIsOfThePast'
  BY DelayStep DEF IInv
<1>3. IInv /\ DelayIsOfThePast /\ [Next]_vars =>
        [delay' # delay /\ attempt_count <= Len(baseDelays) => delay' > delay]_vars
  BY DelayStep DEF IInv
<1> QED BY <1>1, <1>2, <1>3, AlwaysIInv, PTL DEF Spec, DelaysEscalate
=============================================================================
