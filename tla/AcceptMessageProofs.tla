-------------------------- MODULE AcceptMessageProofs --------------------------
(***************************************************************************)
(* Proofs about AcceptMessage, for any number of requests, keys, clients   *)
(* of the pool and faults.                                                 *)
(***************************************************************************)
EXTENDS AcceptMessage, FiniteSetTheorems, TLAPS

Inserting == {"events", "commit"}
Replaying == {"replay", "replay_find", "replay_finding"}
Committed == {"enqueue", "find", "finding", "abort", "done"}

\* The unique index at work: one transaction per key is past its INSERT, and the key has
\* no message yet.
KeyHeldOnce ==
  /\ \A r, q \in Requests :
       pc[r] \in Inserting /\ pc[q] \in Inserting /\ KeyOf[r] = KeyOf[q] => r = q
  /\ \A r \in Requests : pc[r] \in Inserting => keys[KeyOf[r]] = None

\* A message is stored by its own request's commit, and only that request enqueues it.
StoredByOwner ==
  /\ \A r \in messages : pc[r] \in Committed
  /\ \A r \in Requests : pc[r] \in {"enqueue", "find", "finding"} => r \in messages
  /\ \A r \in Requests : xadds[r] # 0 => r \in messages /\ pc[r] # "enqueue"

\* A replay answers with the message of its key, and nobody answers twice.
AnswersPending ==
  /\ \A r \in Requests : pc[r] \in Replaying => found[r] = keys[KeyOf[r]] /\ found[r] # None
  /\ \A r \in Requests : pc[r] # "done" => response[r] = [code |-> 0, msg |-> None]

Inv ==
  TypeOK /\ KeyHeldOnce /\ StoredByOwner /\ OneMessagePerKey /\ EnqueuedAfterCommit
    /\ AnswersPending

-----------------------------------------------------------------------------
(* The pool.                                                               *)

Holders == {r \in Requests : InTransaction(r) \/ pc[r] = "enqueue" \/ WaitsToFind(r) \/ Finds(r)}
Finders == {r \in Requests : Finds(r)}

LEMMA PoolCount == InUse = Cardinality(Holders) + Cardinality(Finders)
BY DEF InUse, Holders, Finders

LEMMA RequestSets ==
  ASSUME NEW S \in SUBSET Requests, NEW T \in SUBSET Requests
  PROVE  /\ Cardinality(S) \in Nat /\ IsFiniteSet(S)
         /\ T \subseteq S => Cardinality(T) <= Cardinality(S)
         /\ \A r \in Requests : T \subseteq S \cup {r} => Cardinality(T) <= Cardinality(S) + 1
<1>1. IsFiniteSet(S) /\ IsFiniteSet(T)
  BY RequestsAssumption, FS_Subset
<1>2. ASSUME NEW r \in Requests, T \subseteq S \cup {r}
      PROVE  Cardinality(T) <= Cardinality(S) + 1
  <2>0. Cardinality(S) \in Nat
    BY <1>1, FS_CardinalityType
  <2>1. IsFiniteSet(S \cup {r}) /\ Cardinality(S \cup {r}) <= Cardinality(S) + 1
    BY <1>1, <2>0, FS_AddElement
  <2>2. Cardinality(T) <= Cardinality(S \cup {r})
    BY <1>2, <2>1, FS_Subset
  <2> QED BY <1>1, <2>1, <2>2, FS_CardinalityType
<1> QED BY <1>1, <1>2, FS_Subset, FS_CardinalityType

\* A step by which nobody takes a client keeps to the pool's size, and so does one by
\* which somebody takes a client that is free.
LEMMA PoolStep ==
  ASSUME TypeOK,
         \/ Holders' \subseteq Holders /\ Finders' \subseteq Finders
         \/ ClientFree /\ \E r \in Requests :
              Holders' \subseteq Holders \cup {r} /\ Finders' \subseteq Finders
         \/ ClientFree /\ \E r \in Requests :
              Holders' \subseteq Holders /\ Finders' \subseteq Finders \cup {r}
  PROVE  InUse' <= PoolSize
<1>1. Holders \in SUBSET Requests /\ Finders \in SUBSET Requests
      /\ Holders' \in SUBSET Requests /\ Finders' \in SUBSET Requests
  BY DEF Holders, Finders
<1>2. Cardinality(Holders) \in Nat /\ Cardinality(Finders) \in Nat
      /\ Cardinality(Holders') \in Nat /\ Cardinality(Finders') \in Nat
  BY <1>1, RequestSets
<1>3. InUse = Cardinality(Holders) + Cardinality(Finders)
      /\ InUse' = Cardinality(Holders') + Cardinality(Finders')
  BY PoolCount DEF InUse, Holders, Finders
<1>4. InUse <= PoolSize /\ PoolSize \in Nat
  BY RequestsAssumption DEF TypeOK
<1>5. CASE Holders' \subseteq Holders /\ Finders' \subseteq Finders
  BY <1>1, <1>2, <1>3, <1>4, <1>5, RequestSets
<1>6. ASSUME ClientFree, NEW r \in Requests, Holders' \subseteq Holders \cup {r},
             Finders' \subseteq Finders
      PROVE  InUse' <= PoolSize
  <2>1. Cardinality(Holders') <= Cardinality(Holders) + 1
        /\ Cardinality(Finders') <= Cardinality(Finders)
    BY <1>1, <1>6, RequestSets
  <2> QED BY <1>2, <1>3, <1>4, <1>6, <2>1 DEF ClientFree
<1>7. ASSUME ClientFree, NEW r \in Requests, Holders' \subseteq Holders,
             Finders' \subseteq Finders \cup {r}
      PROVE  InUse' <= PoolSize
  <2>1. Cardinality(Holders') <= Cardinality(Holders)
        /\ Cardinality(Finders') <= Cardinality(Finders) + 1
    BY <1>1, <1>7, RequestSets
  <2> QED BY <1>2, <1>3, <1>4, <1>7, <2>1 DEF ClientFree
<1> QED BY <1>5, <1>6, <1>7

\* Types, and that no step lends a client the pool does not have.
LEMMA TypeStep == TypeOK /\ [Next]_vars => TypeOK'
<1> SUFFICES ASSUME TypeOK, [Next]_vars PROVE TypeOK'
  OBVIOUS
<1> DEFINE Frees == Holders' \subseteq Holders /\ Finders' \subseteq Finders
<1> USE DEF Holders, Finders, InTransaction, WaitsToFind, Finds
<1>1. InUse' <= PoolSize
  <2>1. ASSUME NEW r \in Requests, Connect(r) PROVE InUse' <= PoolSize
    <3>1. Holders' \subseteq Holders \cup {r} /\ Finders' \subseteq Finders
      BY <2>1 DEF Connect, StepTo, Goto, TypeOK
    <3> QED BY <2>1, <3>1, PoolStep DEF Connect
  <2>2. ASSUME NEW r \in Requests, BeginFind(r) PROVE InUse' <= PoolSize
    <3>1. Holders' \subseteq Holders /\ Finders' \subseteq Finders \cup {r}
      BY <2>2 DEF BeginFind, StepTo, Goto, TypeOK
    <3> QED BY <2>2, <3>1, PoolStep DEF BeginFind
  <2>3. ASSUME NEW r \in Requests,
               Submit(r) \/ CheckKey(r) \/ RollbackReplay(r) \/ CheckCustomer(r) \/ Refuse(r)
        PROVE  Frees
    BY <2>3 DEF Submit, CheckKey, RollbackReplay, CheckCustomer, Refuse, StepTo, Goto, Respond,
                TypeOK
  <2>4. ASSUME NEW r \in Requests,
               InsertMessage(r) \/ InsertKey(r) \/ InsertEvents(r) \/ Commit(r) \/ Enqueue(r)
        PROVE  Frees
    BY <2>4 DEF InsertMessage, InsertKey, InsertEvents, Commit, Enqueue, StepTo, Goto, TypeOK
  <2>5. ASSUME NEW r \in Requests, Find(r) \/ Abort(r) PROVE Frees
    BY <2>5 DEF Find, Abort, Respond, Goto, TypeOK
  <2>6. ASSUME NEW r \in Requests,
               ConnectFails(r) \/ QueryFails(r) \/ CommitFails(r) \/ EnqueueFails(r)
        PROVE  Frees
    BY <2>6 DEF ConnectFails, QueryFails, CommitFails, EnqueueFails, Respond, Goto, TypeOK
  <2>7. CASE Crash
    <3>1. Frees
      BY <2>7 DEF Crash, TypeOK
    <3> QED BY <3>1, PoolStep
  <2>8. CASE UNCHANGED vars
    <3>1. Frees
      BY <2>8 DEF vars
    <3> QED BY <3>1, PoolStep
  <2> QED BY <2>1, <2>2, <2>3, <2>4, <2>5, <2>6, <2>7, <2>8, PoolStep DEF Next, Handle
<1>2. /\ messages' \subseteq Requests /\ keys' \in [Keys -> Requests \cup {None}]
      /\ lost' \subseteq Requests
  BY DEF TypeOK, Next, vars, Handle, Submit, Connect, CheckKey, RollbackReplay, CheckCustomer,
         Refuse, InsertMessage, InsertKey, InsertEvents, Commit, Enqueue, BeginFind, Find, Abort,
         ConnectFails, QueryFails, CommitFails, EnqueueFails, Crash, Respond, StoreRows, dbVars,
         StepTo, Keys
<1>3. xadds' \in [Requests -> Nat] /\ faults' \in 0..MaxFaults
  BY RequestsAssumption
     DEF TypeOK, Next, vars, Handle, Submit, Connect, CheckKey, RollbackReplay, CheckCustomer,
         Refuse, InsertMessage, InsertKey, InsertEvents, Commit, Enqueue, BeginFind, Find, Abort,
         ConnectFails, QueryFails, CommitFails, EnqueueFails, Crash, Fault, Respond, StepTo
<1>4. found' \in [Requests -> Requests \cup {None}]
      /\ response' \in [Requests -> [code : Codes, msg : Requests \cup {None}]]
  <2>1. found' \in [Requests -> Requests \cup {None}]
    BY DEF TypeOK, Next, vars, Handle, Submit, Connect, CheckKey, RollbackReplay, CheckCustomer,
           Refuse, InsertMessage, InsertKey, InsertEvents, Commit, Enqueue, BeginFind, Find,
           Abort, ConnectFails, QueryFails, CommitFails, EnqueueFails, Crash, Respond, StepTo, Keys
  <2>2. \/ UNCHANGED response
        \/ \E r \in Requests, code \in Codes, m \in Requests \cup {None} : Respond(r, code, m)
    BY DEF TypeOK, Next, vars, Handle, Submit, Connect, CheckKey, RollbackReplay, CheckCustomer,
           Refuse, InsertMessage, InsertKey, InsertEvents, Commit, Enqueue, BeginFind, Find,
           Abort, ConnectFails, QueryFails, CommitFails, EnqueueFails, Crash, StepTo, Codes
  <2>3. response' \in [Requests -> [code : Codes, msg : Requests \cup {None}]]
    BY <2>2 DEF TypeOK, Respond
  <2> QED BY <2>1, <2>3
<1>5. pc' \in [Requests -> PCs]
  BY DEF TypeOK, Next, vars, Handle, Submit, Connect, CheckKey, RollbackReplay, CheckCustomer,
         Refuse, InsertMessage, InsertKey, InsertEvents, Commit, Enqueue, BeginFind, Find, Abort,
         ConnectFails, QueryFails, CommitFails, EnqueueFails, Crash, Respond, StepTo, Goto, PCs
<1> QED BY <1>1, <1>2, <1>3, <1>4, <1>5 DEF TypeOK

-----------------------------------------------------------------------------
(* Keys, messages and entries.                                             *)

\* The invariant holds at the start.
LEMMA InitInv == Init => Inv
<1> SUFFICES ASSUME Init PROVE Inv
  OBVIOUS
<1>1. Holders = {} /\ Finders = {}
  BY DEF Init, Holders, Finders, InTransaction, WaitsToFind, Finds
<1>2. InUse <= PoolSize
  BY <1>1, PoolCount, FS_EmptySet, RequestsAssumption
<1>3. TypeOK
  BY <1>2, RequestsAssumption DEF Init, TypeOK, PCs, Codes
<1>4. KeyHeldOnce /\ StoredByOwner /\ AnswersPending
  BY DEF Init, KeyHeldOnce, StoredByOwner, AnswersPending, Inserting, Replaying
<1>5. OneMessagePerKey /\ EnqueuedAfterCommit
  BY DEF Init, OneMessagePerKey, EnqueuedAfterCommit
<1> QED BY <1>3, <1>4, <1>5 DEF Inv

\* The invariant but for the types.
Rows == KeyHeldOnce /\ StoredByOwner /\ OneMessagePerKey /\ EnqueuedAfterCommit /\ AnswersPending

\* Steps up to the INSERT of the key, and those that replay.
LEMMA BeforeInsert ==
  ASSUME Inv, NEW r \in Requests,
         Submit(r) \/ Connect(r) \/ CheckKey(r) \/ RollbackReplay(r) \/ CheckCustomer(r)
           \/ InsertMessage(r)
  PROVE  Rows'
<1> USE DEF Inv, TypeOK, Rows, KeyHeldOnce, StoredByOwner, OneMessagePerKey,
        EnqueuedAfterCommit, AnswersPending, Inserting, Replaying, Committed, dbVars, Goto, StepTo
<1>1. CASE Submit(r)
  BY <1>1 DEF Submit
<1>2. CASE Connect(r)
  BY <1>2 DEF Connect
<1>3. CASE CheckKey(r)
  BY <1>3 DEF CheckKey
<1>4. CASE RollbackReplay(r)
  BY <1>4 DEF RollbackReplay
<1>5. CASE CheckCustomer(r)
  BY <1>5 DEF CheckCustomer
<1>6. CASE InsertMessage(r)
  BY <1>6 DEF InsertMessage
<1> QED BY <1>1, <1>2, <1>3, <1>4, <1>5, <1>6

\* The INSERT of the key waits for any other of the same key, and finds it free.
LEMMA InsertStep ==
  ASSUME Inv, NEW r \in Requests, InsertKey(r) \/ InsertEvents(r) PROVE Rows'
<1> USE DEF Inv, TypeOK, StoredByOwner, OneMessagePerKey,
        EnqueuedAfterCommit, AnswersPending, Inserting, Replaying, Committed, dbVars, Goto, StepTo
<1>1. CASE InsertKey(r)
  <2>1. KeyHeldOnce'
    BY <1>1 DEF InsertKey, KeyInsertPending, SameKey, Taken, KeyHeldOnce
  <2>2. StoredByOwner' /\ OneMessagePerKey' /\ EnqueuedAfterCommit' /\ AnswersPending'
    BY <1>1 DEF InsertKey
  <2> QED BY <2>1, <2>2 DEF Rows
<1>2. CASE InsertEvents(r)
  BY <1>2 DEF InsertEvents, KeyHeldOnce, Rows
<1> QED BY <1>1, <1>2

\* A request that stores its rows finds its key without a message.
LEMMA StoreStep ==
  ASSUME Inv, NEW r \in Requests, pc[r] = "commit", StoreRows(r),
         UNCHANGED <<xadds, found, response>>,
         \/ pc' = [pc EXCEPT ![r] = "enqueue"] /\ lost' = lost
         \/ pc' = [pc EXCEPT ![r] = "abort"] /\ lost' = lost \cup {r}
  PROVE  Rows'
<1>1. keys[KeyOf[r]] = None /\ r \notin messages /\ KeyOf[r] \in Keys
  BY DEF Inv, KeyHeldOnce, StoredByOwner, Inserting, Committed, Keys
<1>2. xadds[r] = 0
  BY <1>1 DEF Inv, StoredByOwner
<1>3. r # None
  BY RequestsAssumption
<1>4. KeyHeldOnce'
  BY DEF Inv, TypeOK, KeyHeldOnce, StoreRows, Inserting
<1>5. StoredByOwner'
  BY <1>2 DEF Inv, TypeOK, StoredByOwner, StoreRows, Committed
<1>6. OneMessagePerKey'
  <2>1. keys' = [keys EXCEPT ![KeyOf[r]] = r] /\ keys \in [Keys -> Requests \cup {None}]
        /\ messages' = messages \cup {r}
    BY DEF Inv, TypeOK, StoreRows
  <2>2. ASSUME NEW q \in messages' PROVE keys'[KeyOf[q]] = q
    <3>1. CASE q = r
      BY <1>1, <2>1, <3>1
    <3>2. CASE q # r
      <4>1. q \in messages /\ q # None /\ q \in Requests
        BY <2>1, <2>2, <3>2, RequestsAssumption DEF Inv, TypeOK
      <4>2. keys[KeyOf[q]] = q /\ KeyOf[q] \in Keys
        BY <4>1 DEF Inv, OneMessagePerKey, Keys
      <4>3. KeyOf[q] # KeyOf[r]
        BY <1>1, <4>1, <4>2
      <4> QED BY <2>1, <4>2, <4>3
    <3> QED BY <3>1, <3>2
  <2>3. ASSUME NEW k \in Keys, keys'[k] # None PROVE keys'[k] \in messages'
    BY <1>1, <2>1, <2>3 DEF Inv, OneMessagePerKey
  <2> QED BY <2>2, <2>3 DEF OneMessagePerKey
<1>7. EnqueuedAfterCommit'
  BY <1>1, <1>2 DEF Inv, TypeOK, EnqueuedAfterCommit, StoreRows
<1>8. AnswersPending'
  BY <1>1 DEF Inv, TypeOK, AnswersPending, StoreRows, Replaying
<1> QED BY <1>4, <1>5, <1>6, <1>7, <1>8 DEF Rows

\* From the enqueue to the answer.
LEMMA AfterCommit ==
  ASSUME Inv, NEW r \in Requests,
         Enqueue(r) \/ EnqueueFails(r) \/ BeginFind(r) \/ Find(r) \/ Refuse(r) \/ Abort(r)
  PROVE  Rows'
<1> USE DEF Inv, TypeOK, Rows, KeyHeldOnce, StoredByOwner, OneMessagePerKey,
        EnqueuedAfterCommit, AnswersPending, Inserting, Replaying, Committed, dbVars, Goto,
        StepTo, Respond
<1>1. CASE Enqueue(r)
  BY <1>1 DEF Enqueue
<1>2. CASE EnqueueFails(r)
  BY <1>2 DEF EnqueueFails
<1>3. CASE BeginFind(r)
  BY <1>3 DEF BeginFind, WaitsToFind
<1>4. CASE Find(r)
  <2>1. PICK answer : response' = [response EXCEPT ![r] = answer]
    BY <1>4 DEF Find
  <2>2. pc' = [pc EXCEPT ![r] = "done"] /\ pc[r] \in {"finding", "replay_finding"}
    BY <1>4 DEF Find
  <2>3. UNCHANGED <<messages, keys, xadds, found, lost>>
    BY <1>4 DEF Find
  <2>4. KeyHeldOnce' /\ StoredByOwner' /\ OneMessagePerKey' /\ EnqueuedAfterCommit'
    BY <2>2, <2>3
  <2>5. AnswersPending'
    BY <2>1, <2>2, <2>3
  <2> QED BY <2>4, <2>5
<1>5. CASE Refuse(r)
  BY <1>5 DEF Refuse
<1>6. CASE Abort(r)
  BY <1>6 DEF Abort
<1> QED BY <1>1, <1>2, <1>3, <1>4, <1>5, <1>6

\* A client or a statement that fails, and the death of the process.
LEMMA Failures ==
  ASSUME Inv, (\E r \in Requests : ConnectFails(r) \/ QueryFails(r)) \/ Crash PROVE Rows'
<1> USE DEF Inv, TypeOK, Rows, KeyHeldOnce, StoredByOwner, OneMessagePerKey,
        EnqueuedAfterCommit, AnswersPending, Inserting, Replaying, Committed, dbVars, Goto
<1>1. ASSUME NEW r \in Requests, QueryFails(r) PROVE Rows'
  BY <1>1 DEF QueryFails, InTransaction, WaitsToFind, Finds
<1>2. CASE Crash
  BY <1>2 DEF Crash
<1>3. ASSUME NEW r \in Requests, ConnectFails(r) PROVE Rows'
  BY <1>3 DEF ConnectFails, Respond
<1> QED BY <1>1, <1>2, <1>3

LEMMA RowsStep == Inv /\ [Next]_vars => Rows'
<1> SUFFICES ASSUME Inv, [Next]_vars PROVE Rows'
  OBVIOUS
<1>1. ASSUME NEW r \in Requests, Commit(r) PROVE Rows'
  BY <1>1, StoreStep DEF Commit, Goto
<1>2. ASSUME NEW r \in Requests, CommitFails(r) PROVE Rows'
  <2>1. CASE StoreRows(r) /\ lost' = lost \cup {r}
    BY <1>2, <2>1, StoreStep DEF CommitFails, Goto
  <2>2. CASE UNCHANGED <<dbVars, lost>>
    BY <1>2, <2>2
       DEF CommitFails, Inv, TypeOK, Rows, KeyHeldOnce, StoredByOwner, OneMessagePerKey,
           EnqueuedAfterCommit, AnswersPending, Inserting, Replaying, Committed, dbVars, Goto
  <2> QED BY <1>2, <2>1, <2>2 DEF CommitFails
<1>3. CASE UNCHANGED vars
  BY <1>3 DEF vars, Inv, Rows, KeyHeldOnce, StoredByOwner, OneMessagePerKey,
              EnqueuedAfterCommit, AnswersPending
<1> QED BY <1>1, <1>2, <1>3, BeforeInsert, InsertStep, AfterCommit, Failures DEF Next, Handle

LEMMA Invariance == Spec => []Inv
<1>1. Inv /\ [Next]_vars => Inv'
  BY TypeStep, RowsStep DEF Inv, Rows
<1> QED BY InitInv, <1>1, PTL DEF Spec

\* Every variable keeps its type, and no more clients are lent than the pool has.
THEOREM TypeCorrect == Spec => []TypeOK
<1>1. Inv => TypeOK
  BY DEF Inv
<1> QED BY Invariance, <1>1, PTL

\* However the submissions of a key interleave, fail or crash, it has one message, and
\* each stored message has its key.
THEOREM KeysAreUnique == Spec => []OneMessagePerKey
<1>1. Inv => OneMessagePerKey
  BY DEF Inv
<1> QED BY Invariance, <1>1, PTL

\* A message is enqueued at most once and only once it is stored, and only a failed or
\* missed XADD keeps a stored message off the stream.
THEOREM EnqueueFollowsCommit == Spec => []EnqueuedAfterCommit
<1>1. Inv => EnqueuedAfterCommit
  BY DEF Inv
<1> QED BY Invariance, <1>1, PTL

-----------------------------------------------------------------------------
(* The promise to the client.                                              *)

\* Every step stores the first message of a key, gives one client the answer it is
\* promised, or is not seen.
LEMMA SubmitStep == Inv /\ [Next]_vars => [Abstract!Next]_<<keys, response>>
<1> SUFFICES ASSUME Inv, [Next]_vars, ~UNCHANGED <<keys, response>>
             PROVE  Abstract!Next
  OBVIOUS
<1>1. ASSUME NEW r \in Requests, pc[r] = "commit", StoreRows(r), UNCHANGED response
      PROVE  Abstract!Store(r)
  BY <1>1 DEF Inv, KeyHeldOnce, AnswersPending, Inserting, StoreRows, Abstract!Store,
              Abstract!NoResponse
<1>2. ASSUME NEW r \in Requests, Commit(r) PROVE Abstract!Store(r)
  BY <1>1, <1>2 DEF Commit
<1>3. ASSUME NEW r \in Requests, CommitFails(r) PROVE Abstract!Store(r)
  BY <1>1, <1>3 DEF CommitFails, dbVars
<1>4. ASSUME NEW r \in Requests, Refuse(r) PROVE Abstract!Refused(r)
  <2>1. keys[KeyOf[r]] # r
    <3>1. r \notin messages /\ KeyOf[r] \in Keys /\ r # None
      BY <1>4, RequestsAssumption DEF Refuse, Inv, StoredByOwner, Committed, Keys
    <3> QED BY <3>1 DEF Inv, OneMessagePerKey
  <2>2. PICK code \in {403, 404} : Respond(r, code, None)
    BY <1>4 DEF Refuse
  <2>3. response[r] = Abstract!NoResponse /\ keys' = keys
    BY <1>4 DEF Refuse, dbVars, Inv, AnswersPending, Abstract!NoResponse
  <2>4. Abstract!Answer(r, code, None)
    BY <2>2, <2>3 DEF Respond, Abstract!Answer
  <2> QED BY <2>1, <2>4 DEF Abstract!Refused
<1>5. ASSUME NEW r \in Requests, Abort(r) PROVE Abstract!Failed(r)
  BY <1>5 DEF Abort, Respond, dbVars, Inv, AnswersPending, Abstract!Failed, Abstract!Answer,
              Abstract!NoResponse
<1>6. ASSUME NEW r \in Requests, ConnectFails(r) PROVE Abstract!Failed(r)
  BY <1>6 DEF ConnectFails, Respond, dbVars, Inv, AnswersPending, Abstract!Failed,
              Abstract!Answer, Abstract!NoResponse
<1>7. ASSUME NEW r \in Requests, Find(r) PROVE Abstract!Created(r) \/ Abstract!Replayed(r)
  <2>1. CASE pc[r] = "finding" /\ Respond(r, 201, r)
    BY <1>7, <2>1 DEF Find, Respond, dbVars, Inv, StoredByOwner, OneMessagePerKey,
                      AnswersPending, Abstract!Created, Abstract!Answer, Abstract!NoResponse
  <2>2. CASE pc[r] = "replay_finding" /\ Respond(r, 200, found[r])
    <3>1. found[r] = keys[KeyOf[r]] /\ found[r] # None
      BY <2>2 DEF Inv, AnswersPending, Replaying
    <3>2. found[r] # r
      BY <2>2, <3>1 DEF Inv, OneMessagePerKey, StoredByOwner, Committed, Keys
    <3> QED BY <1>7, <2>2, <3>1, <3>2
            DEF Find, Respond, dbVars, Inv, AnswersPending, Abstract!Replayed,
                Abstract!Answer, Abstract!NoResponse
  <2> QED BY <1>7, <2>1, <2>2 DEF Find
<1> QED BY <1>2, <1>3, <1>4, <1>5, <1>6, <1>7
        DEF Abstract!Next, Next, vars, Handle, Submit, Connect, CheckKey, RollbackReplay,
            CheckCustomer, InsertMessage, InsertKey, InsertEvents, Enqueue, BeginFind,
            QueryFails, EnqueueFails, Crash, StepTo, dbVars

\* The handler keeps the promise of IdempotentSubmit: a key never changes its message,
\* every success of the key names it, and a refusal stores nothing.
THEOREM SubmitImplemented == Spec => ImplementsSubmit
<1>1. Init => Abstract!Init
  BY DEF Init, Abstract!Init, Abstract!NoResponse, Keys
<1>2. Inv /\ [Next]_vars => [Abstract!Next]_(Abstract!submitVars)
  BY SubmitStep DEF Abstract!submitVars
<1> QED BY <1>1, <1>2, Invariance, PTL DEF Spec, ImplementsSubmit, Abstract!Spec
=============================================================================
