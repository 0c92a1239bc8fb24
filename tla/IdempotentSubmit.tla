-------------------------- MODULE IdempotentSubmit --------------------------
(***************************************************************************)
(* What POST /messages promises its clients: the first submission of an    *)
(* idempotency key that is stored gives the key its message for good, and  *)
(* every later success for that key, first answer or replay, names that    *)
(* message.  No transaction, lock, connection or queue is in sight.        *)
(***************************************************************************)
CONSTANTS Requests, KeyOf, None

VARIABLES keys, response

submitVars == <<keys, response>>

NoResponse == [code |-> 0, msg |-> None]

Init ==
  /\ keys = [k \in {KeyOf[r] : r \in Requests} |-> None]
  /\ response = [r \in Requests |-> NoResponse]

\* The message of request r becomes the message of its key.
Store(r) ==
  /\ keys[KeyOf[r]] = None
  /\ response[r] = NoResponse
  /\ keys' = [keys EXCEPT ![KeyOf[r]] = r]
  /\ UNCHANGED response

Answer(r, code, m) ==
  /\ response[r] = NoResponse
  /\ response' = [response EXCEPT ![r] = [code |-> code, msg |-> m]]
  /\ UNCHANGED keys

Created(r) == keys[KeyOf[r]] = r /\ Answer(r, 201, r)

Replayed(r) == keys[KeyOf[r]] \notin {None, r} /\ Answer(r, 200, keys[KeyOf[r]])

\* A refused request has stored nothing.
Refused(r) == keys[KeyOf[r]] # r /\ \E code \in {403, 404} : Answer(r, code, None)

\* An internal error tells the client nothing about what was stored.
Failed(r) == Answer(r, 500, None)

Next ==
  \E r \in Requests :
    Store(r) \/ Created(r) \/ Replayed(r) \/ Refused(r) \/ Failed(r)

Spec == Init /\ [][Next]_submitVars
=============================================================================
