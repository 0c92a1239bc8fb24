------------------------------ MODULE WindowQuota ------------------------------
(***************************************************************************)
(* What a limit on sending promises, whoever enforces it: every account    *)
(* has a window of time, what has been spent in it and a limit.  Spending  *)
(* stays below the limit, and the next window starts from nothing.         *)
(***************************************************************************)
EXTENDS Integers

CONSTANT Accounts

VARIABLE ledger   \* [window, used, limit] of each account

Unlimited == -1

Init == \A a \in Accounts : ledger[a].used = 0

Spend(a) ==
  /\ \/ ledger[a].limit = Unlimited
     \/ ledger[a].used < ledger[a].limit
  /\ ledger'[a] = [ledger[a] EXCEPT !.used = @ + 1]

Turn(a) ==
  /\ ledger'[a].window = ledger[a].window + 1
  /\ ledger'[a].used = 0

\* One step of the system may spend from several accounts, or turn them.
Next == \A a \in Accounts : ledger'[a] = ledger[a] \/ Spend(a) \/ Turn(a)

Spec == Init /\ [][Next]_ledger
=============================================================================
