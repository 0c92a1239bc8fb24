-------------------------- MODULE MCDeliveryEngine --------------------------
(***************************************************************************)
(* Small instances of DeliveryEngine.                                      *)
(***************************************************************************)
EXTENDS DeliveryEngine, TLC

CONSTANTS m1, m2, r1

\* Two messages to one recipient.
OneRecipient == m1 :> r1 @@ m2 :> r1

OneMessage == m1 :> r1

\* What the recipient's provider may answer.
AnyResponse == r1 :> Kinds
DeliveredOnly == r1 :> {"delivered"}
DeliveredOrRetry == r1 :> {"delivered", "retryable"}
BounceOrRetry == r1 :> {"hard_bounce", "retryable"}

\* The workers are interchangeable.
WorkerSymmetry == Permutations(Workers)
=============================================================================
