------------------------------ MODULE MCCapacity ------------------------------
(* Small instances of Capacity for TLC.                                     *)
EXTENDS Capacity, TLC

MainCustomer == [m \in Classes |-> "cus_main"]
AllGmail == [m \in Classes |-> "gmail"]
AllGmailCom == [m \in Classes |-> "gmail.com"]
WarmupSchedule == <<1, 2>>

Plain == [owner |-> None, warming |-> FALSE, warmup_started_at |-> 0,
          limited |-> FALSE, daily_limit |-> 0]
Base == [queued |-> [m \in Classes |-> 4],
         daily_send_cap |-> [cus_main |-> 0, cus_other |-> 0],
         pools |-> [own |-> [Plain EXCEPT !.owner = "cus_main"],
                    foreign |-> [Plain EXCEPT !.owner = "cus_other"],
                    shared |-> Plain],
         routes |-> {<<"gmail", "shared">>}, throttle_rules |-> {}]

Rule(id, scope, key, n) ==
  [id |-> id, scope |-> scope, scope_key |-> key, messages_per_minute |-> n]

\* The customer may send 2 a day; the other pools are another customer's, or closed.
Capped == [Base EXCEPT !.daily_send_cap["cus_main"] = 2,
                       !.routes = {<<"gmail", "shared">>, <<"gmail", "foreign">>}]

\* The shared pool warms up from noon of the first day.
Warming == [Base EXCEPT !.queued["mail"] = 5, !.pools["shared"].warming = TRUE,
                        !.pools["shared"].warmup_started_at = 1]

\* The dedicated pool's warmup starts in the future, and an explicit limit of 1 is
\* the stricter one from its second day on.
Dedicated1 ==
  [Base EXCEPT !.queued["mail"] = 3, !.pools["own"].warming = TRUE, !.pools["own"].warmup_started_at = 3,
               !.pools["own"].limited = TRUE, !.pools["own"].daily_limit = 1,
               !.pools["shared"].limited = TRUE,
               !.routes = {<<"gmail", "shared">>, <<"gmail", "own">>, <<"gmail", "foreign">>}]

\* One message a minute to the provider.
Throttled == [Base EXCEPT !.throttle_rules = {Rule(1, "provider", "gmail", 1)}]

\* Rules of two scopes: a message that is cut off between them stays counted in one.
TwoScopes == [Base EXCEPT !.queued["mail"] = 1, !.throttle_rules =
                {Rule(1, "domain", "gmail.com", 1), Rule(2, "customer", "cus_main", 1)}]

\* Nothing may go to the domain.
Closed == [Base EXCEPT !.queued["mail"] = 2,
                       !.throttle_rules = {Rule(1, "domain", "gmail.com", 0)}]

\* Two rows of one scope and key, as an operator may insert them.
Doubled == [Base EXCEPT !.queued["mail"] = 2, !.throttle_rules =
              {Rule(1, "provider", "gmail", 2), Rule(2, "provider", "gmail", 3)}]

AllSettings == {Capped, Warming, Dedicated1, Throttled, TwoScopes, Doubled, Closed}

WorkerSymmetry == Permutations(Workers)
=============================================================================
