--------------------------- MODULE MCAcceptMessage ---------------------------
(***************************************************************************)
(* Small instances of AcceptMessage.                                       *)
(***************************************************************************)
EXTENDS AcceptMessage, TLC

CONSTANTS p1, p2, p3, k1

\* Two submissions of one key.
Twice == p1 :> k1 @@ p2 :> k1

\* Three submissions of one key.
Thrice == p1 :> k1 @@ p2 :> k1 @@ p3 :> k1
=============================================================================
