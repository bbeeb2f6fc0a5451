---------------------------- MODULE MCScheduler ----------------------------
(***************************************************************************)
(* Small policies for the model checker.  The misfire, concurrency, retry  *)
(* and pause policies are set against each other in pairs rather than all  *)
(* at once: each setting occurs, and so does each pair the code couples.   *)
(***************************************************************************)
EXTENDS Scheduler

Daily(misfire, concurrency, maxAttempts, backoff, pauseAfter) ==
  [kind |-> "daily", fireAt |-> 0, misfire |-> misfire, concurrency |-> concurrency,
   maxAttempts |-> maxAttempts, backoff |-> backoff, pauseAfter |-> pauseAfter]

SkipPolicy == Daily("skip", "skip", 1, "fixed", 0)
ReplacePolicy == Daily("fire_once", "replace", 0, "none", 2)
FireAllPolicy == Daily("fire_all", "queue", 0, "none", 1)
FireAllRetryPolicy == Daily("fire_all", "skip", 1, "none", 0)
OncePolicy == [Daily("fire_all", "replace", 2, "exponential", 1)
                 EXCEPT !.kind = "once", !.fireAt = 2]

AllPolicies == {SkipPolicy, ReplacePolicy, FireAllPolicy, FireAllRetryPolicy, OncePolicy}
OnlySkip == {SkipPolicy}

=============================================================================
