---------------------------- MODULE MCRetrySchedule ----------------------------
(* Small instances of RetrySchedule for TLC.                                *)
EXTENDS RetrySchedule

\* 30 seconds, 2 and 10 minutes grow faster than this; what counts is that half of each
\* delay is more than the whole of the one before it, and that attempts outnumber delays.
TwoDelays == <<2, 6>>

ASSUME DelaysAssumption == Escalating

\* No hint, each kind of answer, and two hints at once.
SomeLocals ==
  {{}, {"bounce", "full"}, {"ratelimit", "spam"}, {"spam"}, {"tempfail"}}
=============================================================================
