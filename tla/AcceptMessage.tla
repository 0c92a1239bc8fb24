---------------------------- MODULE AcceptMessage ----------------------------
(***************************************************************************)
(* Concurrent POST /messages requests in one control-plane process: the    *)
(* transaction that stores a message together with its idempotency key,    *)
(* the enqueue after its commit, and the pg pool that all requests share.  *)
(* Every awaited call is one step.  A request holds the client it opened   *)
(* its transaction on until it answers, and the lookup of the message it   *)
(* answers with asks the pool for a second one.                            *)
(*                                                                         *)
(* The message a request creates (msg_<uuid>) is named by the request.     *)
(***************************************************************************)
EXTENDS Naturals, FiniteSets

CONSTANTS
  Requests,    \* the POST requests clients may send
  KeyOf,       \* idempotency_key of each request
  PoolSize,    \* clients of the pg pool
  None,        \* no message
  MaxFaults    \* bound: failed calls and crashes

Keys == {KeyOf[r] : r \in Requests}

ASSUME RequestsAssumption ==
  /\ DOMAIN KeyOf = Requests /\ None \notin Requests
  /\ IsFiniteSet(Requests)
  /\ PoolSize \in Nat \ {0} /\ MaxFaults \in Nat

VARIABLES
  messages,    \* committed rows of messages
  keys,        \* committed rows of idempotency_keys: the message of each key
  xadds,       \* entries of the stream, per message
  pc,          \* where each handler is
  found,       \* message_id the key lookup returned to each handler
  response,    \* what each client has been answered
  lost,        \* stored messages whose XADD failed or was never reached
  faults

vars == <<messages, keys, xadds, pc, found, response, lost, faults>>
dbVars == <<messages, keys>>

-----------------------------------------------------------------------------
(* Connections and locks.                                                  *)

\* The handler is inside its transaction.
InTransaction(r) ==
  pc[r] \in {"begin", "replay", "customer", "refuse", "insert_message", "insert_key",
             "events", "commit", "abort"}

\* The handler waits for, or holds, the pool's client of findFirst.
WaitsToFind(r) == pc[r] \in {"replay_find", "find"}
Finds(r) == pc[r] \in {"replay_finding", "finding"}

InUse ==
  Cardinality({r \in Requests : InTransaction(r) \/ pc[r] = "enqueue"
                                  \/ WaitsToFind(r) \/ Finds(r)})
    + Cardinality({r \in Requests : Finds(r)})

\* Mutant: one client more than the pool has.
ClientFreeLate == InUse <= PoolSize

ClientFree == InUse < PoolSize

SameKey(r) == {q \in Requests \ {r} : KeyOf[q] = KeyOf[r]}

\* Mutant: a replay is answered without ROLLBACK and its row lock stays.
RowLockKept(r) == \E q \in SameKey(r) : found[q] # None

\* SELECT ... FOR UPDATE has locked the key's row: a row must exist to be locked.
KeyRowLocked(r) == \E q \in SameKey(r) : pc[q] = "replay"

\* Mutant: no unique index makes the second insert wait.
NeverPending(r) == FALSE

\* Another transaction has inserted the key and has not ended; the unique index
\* of the primary key makes an insert of the same key wait for it.
KeyInsertPending(r) == \E q \in SameKey(r) : pc[q] \in {"events", "commit"}

-----------------------------------------------------------------------------
Init ==
  /\ messages = {} /\ keys = [k \in Keys |-> None]
  /\ xadds = [r \in Requests |-> 0]
  /\ pc = [r \in Requests |-> "idle"]
  /\ found = [r \in Requests |-> None]
  /\ response = [r \in Requests |-> [code |-> 0, msg |-> None]]
  /\ lost = {} /\ faults = 0

Goto(r, p) == pc' = [pc EXCEPT ![r] = p]

\* res.status(code).json(...), then the finally clause releases the client.
Respond(r, code, m) ==
  /\ response' = [response EXCEPT ![r] = [code |-> code, msg |-> m]]
  /\ Goto(r, "done")

\* A handler step that touches nothing but its own place.
StepTo(r, p) ==
  Goto(r, p) /\ UNCHANGED <<dbVars, xadds, found, response, lost, faults>>

Submit(r) == pc[r] = "idle" /\ StepTo(r, "connect")

\* await pool.connect()
Connect(r) == pc[r] = "connect" /\ ClientFree /\ StepTo(r, "begin")

\* BEGIN and SELECT message_id ... FOR UPDATE.
CheckKey(r) ==
  /\ pc[r] = "begin"
  /\ ~KeyRowLocked(r)
  /\ found' = [found EXCEPT ![r] = keys[KeyOf[r]]]
  /\ Goto(r, IF keys[KeyOf[r]] = None THEN "customer" ELSE "replay")
  /\ UNCHANGED <<dbVars, xadds, response, lost, faults>>

\* ROLLBACK frees the row lock; the client stays with the request.
RollbackReplay(r) == pc[r] = "replay" /\ StepTo(r, "replay_find")

\* The customer may be missing (404), blocked (403) or allowed to send.
CheckCustomer(r) ==
  /\ pc[r] = "customer"
  /\ StepTo(r, "refuse") \/ StepTo(r, "insert_message")

Refuse(r) ==
  /\ pc[r] = "refuse"
  /\ \E code \in {403, 404} : Respond(r, code, None)
  /\ UNCHANGED <<dbVars, xadds, found, lost, faults>>

InsertMessage(r) == pc[r] = "insert_message" /\ StepTo(r, "insert_key")

\* Mutant: the insert of a key that exists is passed over.
TakenPassedOver(k) == FALSE

Taken(k) == keys[k] # None

\* INSERT INTO idempotency_keys: waits for a pending insert of the key, and fails
\* when the key has been committed meanwhile.
InsertKey(r) ==
  /\ pc[r] = "insert_key"
  /\ ~KeyInsertPending(r)
  /\ StepTo(r, IF Taken(KeyOf[r]) THEN "abort" ELSE "events")

\* Mutant: the message is enqueued inside the transaction.
InsertEventsAndEnqueue(r) ==
  /\ pc[r] = "events"
  /\ xadds' = [xadds EXCEPT ![r] = @ + 1]
  /\ Goto(r, "commit")
  /\ UNCHANGED <<dbVars, found, response, lost, faults>>

InsertEvents(r) == pc[r] = "events" /\ StepTo(r, "commit")

\* The message and its key become visible together.
StoreRows(r) ==
  /\ messages' = messages \cup {r}
  /\ keys' = [keys EXCEPT ![KeyOf[r]] = r]

Commit(r) ==
  /\ pc[r] = "commit"
  /\ StoreRows(r)
  /\ Goto(r, "enqueue")
  /\ UNCHANGED <<xadds, found, response, lost, faults>>

Enqueue(r) ==
  /\ pc[r] = "enqueue"
  /\ xadds' = [xadds EXCEPT ![r] = @ + 1]
  /\ Goto(r, "find")
  /\ UNCHANGED <<dbVars, found, response, lost, faults>>

\* db.query.messagesTable.findFirst takes a client of the pool for one query.
BeginFind(r) ==
  /\ WaitsToFind(r) /\ ClientFree
  /\ StepTo(r, IF pc[r] = "find" THEN "finding" ELSE "replay_finding")

Find(r) ==
  /\ \/ pc[r] = "finding" /\ Respond(r, 201, r)
     \/ pc[r] = "replay_finding" /\ Respond(r, 200, found[r])
  /\ UNCHANGED <<dbVars, xadds, found, lost, faults>>

\* The catch clause: ROLLBACK, 500.
Abort(r) ==
  /\ pc[r] = "abort"
  /\ Respond(r, 500, None)
  /\ UNCHANGED <<dbVars, xadds, found, lost, faults>>

-----------------------------------------------------------------------------
(* Failures.                                                               *)

Fault == faults < MaxFaults /\ faults' = faults + 1

\* The pool cannot open a client: the call is outside the try, so the rejection is
\* Express's to answer, 500 and nothing to roll back or to release.
ConnectFails(r) ==
  /\ pc[r] = "connect" /\ ClientFree
  /\ Fault
  /\ Respond(r, 500, None)
  /\ UNCHANGED <<dbVars, xadds, found, lost>>

\* A statement of the transaction fails, or the lookup after it does.
QueryFails(r) ==
  /\ \/ InTransaction(r) /\ pc[r] \notin {"abort", "commit"}
     \/ WaitsToFind(r) \/ Finds(r)
  /\ Fault
  /\ Goto(r, "abort")
  /\ UNCHANGED <<dbVars, xadds, found, response, lost>>

\* COMMIT fails, or its answer is lost after it took effect.
CommitFails(r) ==
  /\ pc[r] = "commit"
  /\ Fault
  /\ Goto(r, "abort")
  /\ \/ UNCHANGED <<dbVars, lost>>
     \/ StoreRows(r) /\ lost' = lost \cup {r}
  /\ UNCHANGED <<xadds, found, response>>

\* enqueueMessage throws: logged, and the client is answered 201 all the same.
EnqueueFails(r) ==
  /\ pc[r] = "enqueue"
  /\ Fault
  /\ lost' = lost \cup {r}
  /\ Goto(r, "find")
  /\ UNCHANGED <<dbVars, xadds, found, response>>

\* The process dies: every handler in flight ends without an answer, and Postgres
\* rolls their transactions back.
Crash ==
  /\ Fault
  /\ pc' = [r \in Requests |-> IF pc[r] = "idle" THEN "idle" ELSE "done"]
  /\ lost' = lost \cup {r \in Requests : pc[r] = "enqueue"}
  /\ UNCHANGED <<dbVars, xadds, found, response>>

-----------------------------------------------------------------------------
Handle(r) ==
  \/ Connect(r) \/ CheckKey(r) \/ RollbackReplay(r) \/ CheckCustomer(r) \/ Refuse(r)
  \/ InsertMessage(r) \/ InsertKey(r) \/ InsertEvents(r) \/ Commit(r) \/ Enqueue(r)
  \/ BeginFind(r) \/ Find(r) \/ Abort(r)

Next ==
  \/ \E r \in Requests :
       \/ Submit(r) \/ Handle(r)
       \/ ConnectFails(r) \/ QueryFails(r) \/ CommitFails(r) \/ EnqueueFails(r)
  \/ Crash

Spec == Init /\ [][Next]_vars

\* Node's event loop runs every handler whose awaited call can return.
FairSpec == Spec /\ \A r \in Requests : WF_vars(Handle(r))

-----------------------------------------------------------------------------
(* Properties.                                                             *)

PCs == {"idle", "connect", "begin", "replay", "replay_find", "replay_finding",
        "customer", "refuse", "insert_message", "insert_key", "events", "commit",
        "enqueue", "find", "finding", "abort", "done"}

Codes == {0, 200, 201, 403, 404, 500}

\* Every variable has its type, and the pool never lends more clients than it has.
TypeOK ==
  /\ messages \subseteq Requests
  /\ keys \in [Keys -> Requests \cup {None}]
  /\ xadds \in [Requests -> Nat]
  /\ pc \in [Requests -> PCs]
  /\ found \in [Requests -> Requests \cup {None}]
  /\ response \in [Requests -> [code : Codes, msg : Requests \cup {None}]]
  /\ lost \subseteq Requests
  /\ faults \in 0..MaxFaults
  /\ InUse <= PoolSize

\* The rows of messages and of idempotency_keys name each other one to one: no key
\* has two messages, however its submissions interleave, fail or crash.
OneMessagePerKey ==
  /\ \A r \in messages : keys[KeyOf[r]] = r
  /\ \A k \in Keys : keys[k] # None => keys[k] \in messages

\* A message is on the stream at most once, only after it is stored, and a stored
\* message whose handler is past its XADD is on it unless that XADD was lost.
EnqueuedAfterCommit ==
  \A r \in Requests :
    /\ xadds[r] <= 1
    /\ xadds[r] = 1 => r \in messages
    /\ r \in messages /\ pc[r] # "enqueue" => xadds[r] = 1 \/ r \in lost

\* Every success of a key names one message, whoever stored it; a refusal stores
\* nothing; a key never changes its message.
Abstract == INSTANCE IdempotentSubmit

ImplementsSubmit == Abstract!Spec

\* Every request is answered, unless the process dies under it.
EveryRequestAnswered == \A r \in Requests : pc[r] = "connect" ~> pc[r] = "done"

\* Concurrent submissions of one key are all answered with its message, refused, or
\* failed by a fault: a duplicate by itself is no error.
DuplicatesAreReplayed ==
  \A r \in Requests : response[r].code = 500 => faults > 0
=============================================================================
