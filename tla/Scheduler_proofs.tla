-------------------------- MODULE Scheduler_proofs --------------------------
(***************************************************************************)
(* Scheduler for every set of rules and policies, every clock, and every   *)
(* number of runs, edits, failed writes and crashes: types, what the       *)
(* operators of the evaluator and of the rules promise, and the properties *)
(* of single rules.                                                        *)
(***************************************************************************)
EXTENDS Scheduler, SequenceTheorems, WellFoundedInduction, TLAPS

-----------------------------------------------------------------------------
(***************************************************************************)
(* The evaluator.                                                          *)
(***************************************************************************)
\* A non-empty set of natural numbers has a least element.
LEMMA LeastNatural ==
  ASSUME NEW S \in SUBSET Nat, S # {}
  PROVE  \E n \in S : \A m \in S : n <= m
<1> DEFINE Less == OpToRel(<, Nat)
<1>1. PICK n \in S : \A m \in S : ~ (<<m, n>> \in Less)
  <2> HIDE DEF Less
  <2>1. IsWellFoundedOn(Less, Nat)
    BY NatLessThanWellFounded DEF Less
  <2> QED
    BY <2>1, WFMin
<1>2. \A m \in S : ~ (m < n)
  <2> TAKE m \in S
  <2>1. <<m, n>> \notin {ss \in Nat \X Nat : ss[1] < ss[2]}
    BY <1>1 DEF OpToRel
  <2> QED
    BY <2>1
<1> QED
  BY <1>2

\* A function that doubles up to n.
Doubles(g, n) == \A i \in 0..n : g[i] = IF i = 0 THEN 1 ELSE 2 * g[i - 1]

LEMMA DoublingExists ==
  ASSUME NEW n \in Nat
  PROVE  \E g \in [0..n -> Nat] : Doubles(g, n)
<1> DEFINE Bad == {m \in Nat : ~ \E g \in [0..m -> Nat] : Doubles(g, m)}
<1>1. SUFFICES ASSUME Bad # {} PROVE FALSE
  OBVIOUS
<1>2. PICK m \in Bad : \A k \in Bad : m <= k
  <2> HIDE DEF Bad
  <2> Bad \in SUBSET Nat
    BY DEF Bad
  <2> QED
    BY <1>1, LeastNatural
<1>3. CASE m = 0
  <2> DEFINE g == [i \in 0..0 |-> 1]
  <2>1. g \in [0..m -> Nat] /\ Doubles(g, m)
    BY <1>3 DEF Doubles
  <2> QED
    BY <2>1
<1>4. CASE m # 0
  <2>1. m - 1 \in Nat /\ m - 1 \notin Bad
    <3>1. m \in Nat
      OBVIOUS
    <3> HIDE DEF Bad
    <3> QED
      BY <1>2, <1>4, <3>1
  <2>2. PICK g \in [0..(m - 1) -> Nat] : Doubles(g, m - 1)
    BY <2>1
  <2> DEFINE h == [i \in 0..m |-> IF i = m THEN 2 * g[m - 1] ELSE g[i]]
  <2>3. m - 1 \in 0..(m - 1)
    BY <2>1
  <2>4. h \in [0..m -> Nat]
    <3> SUFFICES ASSUME NEW i \in 0..m PROVE h[i] \in Nat
      OBVIOUS
    <3>1. i # m => i \in 0..(m - 1)
      BY <2>1
    <3>2. g[m - 1] \in Nat
      BY <2>3
    <3> QED
      BY <3>1, <3>2
  <2>5. Doubles(h, m)
    <3> SUFFICES ASSUME NEW i \in 0..m
                 PROVE  h[i] = IF i = 0 THEN 1 ELSE 2 * h[i - 1]
      BY DEF Doubles
    <3>1. CASE i = m
      <4>1. i - 1 \in 0..m /\ i - 1 # m
        BY <3>1, <1>4
      <4> QED
        BY <3>1, <4>1, <1>4
    <3>2. CASE i # m
      <4>1. i \in 0..(m - 1)
        BY <3>2
      <4>2. i # 0 => i - 1 \in 0..m /\ i - 1 # m
        BY <4>1
      <4>3. g[i] = IF i = 0 THEN 1 ELSE 2 * g[i - 1]
        BY <4>1, <2>2 DEF Doubles
      <4> QED
        BY <3>2, <4>2, <4>3
    <3> QED
      BY <3>1, <3>2
  <2> QED
    BY <2>4, <2>5
<1> QED
  BY <1>3, <1>4

LEMMA DoublingIsUnique ==
  ASSUME NEW m \in Nat, NEW n \in Nat, m <= n,
         NEW g \in [0..m -> Nat], NEW h \in [0..n -> Nat], Doubles(g, m), Doubles(h, n)
  PROVE  g[m] = h[m]
<1> DEFINE Bad == {i \in 0..m : g[i] # h[i]}
<1>1. Bad = {}
  <2>1. SUFFICES ASSUME Bad # {} PROVE FALSE
    OBVIOUS
  <2>2. PICK i \in Bad : \A k \in Bad : i <= k
    <3> HIDE DEF Bad
    <3> Bad \in SUBSET Nat
      BY DEF Bad
    <3> QED
      BY <2>1, LeastNatural
  <2>3. i \in 0..n
    OBVIOUS
  <2>4. i # 0 => i - 1 \in 0..m /\ i - 1 \notin Bad
    BY <2>2
  <2> QED
    BY <2>2, <2>3, <2>4 DEF Doubles
<1> QED
  BY <1>1

LEMMA DoubledType ==
  ASSUME NEW n \in Nat
  PROVE  Doubled[n] \in Nat
<1> DEFINE Of(m) == CHOOSE g \in [0..m -> Nat] : Doubles(g, m)
           D == [m \in Nat |-> Of(m)[m]]
           Step(f) == [m \in Nat |-> IF m = 0 THEN 1 ELSE 2 * f[m - 1]]
<1>1. \A m \in Nat : Of(m) \in [0..m -> Nat] /\ Doubles(Of(m), m)
  BY DoublingExists
<1>2. D = Step(D)
  <2> HIDE DEF Of
  <2> SUFFICES ASSUME NEW m \in Nat
               PROVE  Of(m)[m] = IF m = 0 THEN 1 ELSE 2 * D[m - 1]
    BY Zenon
  <2>1. Of(m)[m] = IF m = 0 THEN 1 ELSE 2 * Of(m)[m - 1]
    BY <1>1 DEF Doubles
  <2>2. CASE m = 0
    BY <2>1, <2>2
  <2>3. CASE m # 0
    <3>1. m - 1 \in Nat /\ m - 1 <= m
      BY <2>3
    <3>2. Doubles(Of(m), m - 1)
      BY <1>1, <3>1 DEF Doubles
    <3> DEFINE h == [i \in 0..(m - 1) |-> Of(m)[i]]
    <3>3. h \in [0..(m - 1) -> Nat]
      BY <1>1, <3>1
    <3>4. Of(m - 1)[m - 1] = Of(m)[m - 1]
      BY <1>1, <3>1, DoublingIsUnique
    <3> QED
      BY <2>1, <2>3, <3>1, <3>4
  <2> QED
    BY <2>2, <2>3
<1>3. Doubled = Step(Doubled)
  <2>1. Doubled = CHOOSE f : f = Step(f)
    BY DEF Doubled
  <2> HIDE DEF D, Step
  <2> QED
    BY <1>2, <2>1
<1>4. \A m \in Nat : Doubled[m] = IF m = 0 THEN 1 ELSE 2 * Doubled[m - 1]
  BY <1>3
<1> DEFINE Bad == {m \in Nat : Doubled[m] \notin Nat}
<1>5. Bad = {}
  <2>1. SUFFICES ASSUME Bad # {} PROVE FALSE
    OBVIOUS
  <2>2. PICK m \in Bad : \A k \in Bad : m <= k
    <3> HIDE DEF Bad
    <3> Bad \in SUBSET Nat
      BY DEF Bad
    <3> QED
      BY <2>1, LeastNatural
  <2>3. m # 0 => m - 1 \in Nat /\ m - 1 \notin Bad
    BY <2>2
  <2> QED
    BY <1>4, <2>2, <2>3
<1> QED
  BY <1>5

LEMMA NextOccurrenceIsLater ==
  ASSUME NEW t \in Nat
  PROVE  NextOccurrence(t) \in Nat /\ NextOccurrence(t) > t
<1>1. Period \in Nat \ {0}
  BY SchedulerAssumption
<1>2. t \div Period \in Nat
  BY <1>1
<1> QED
  BY <1>1, <1>2 DEF NextOccurrence

\* A next fire lies ahead of the time it is computed from; a disabled rule has
\* none.
LEMMA NextFireFromClock ==
  ASSUME NEW policy \in Policies, NEW enabled \in BOOLEAN, NEW from \in Nat
  PROVE  LET next == ComputeNextFireAt(policy, enabled, from)
         IN  /\ next \in Nat
             /\ next # NoFire => next > from
             /\ ~enabled => next = NoFire
<1>1. policy.fireAt \in Nat
  BY SchedulerAssumption DEF PolicyType
<1>2. NextOccurrence(from) \in Nat /\ NextOccurrence(from) > from
  BY NextOccurrenceIsLater
<1> QED
  BY <1>1, <1>2 DEF ComputeNextFireAt, NoFire

LEMMA NextFireFromFire ==
  ASSUME NEW policy \in Policies, NEW fired \in Nat
  PROVE  LET next == ComputeNextFireAfter(policy, fired)
         IN  /\ next \in Nat
             /\ next # NoFire => next > fired /\ next = NextOccurrence(fired)
BY NextOccurrenceIsLater DEF ComputeNextFireAfter, NoFire

LEMMA RetryIsNotBefore ==
  ASSUME NEW policy \in Policies, NEW at \in Nat, NEW attempt \in Nat \ {0}
  PROVE  RetryAt(policy, at, attempt) \in Nat
<1>1. attempt - 1 \in Nat
  OBVIOUS
<1>2. Doubled[attempt - 1] \in Nat
  BY <1>1, DoubledType
<1>3. RetryDelay \in Nat /\ RetryCap \in Nat
  BY SchedulerAssumption
<1> DEFINE delay == RetryDelay * Doubled[attempt - 1]
<1>4. delay \in Nat
  BY <1>2, <1>3
<1>5. Least(delay, RetryCap) \in Nat
  BY <1>3, <1>4 DEF Least
<1>6. policy.backoff \in {"none", "fixed", "exponential"}
  BY SchedulerAssumption DEF PolicyType
<1> HIDE DEF delay
<1>7. RetryAt(policy, at, attempt) \in {at, at + RetryDelay, at + Least(delay, RetryCap)}
  BY <1>6 DEF RetryAt, delay
<1> QED
  BY <1>3, <1>5, <1>7

\* The due fires are fires or one retry; all of them lie in the past.
LEMMA DueFires ==
  ASSUME NEW rule \in Rule, NEW at \in Nat, NEW startup \in BOOLEAN
  PROVE  LET fires == CollectDueFires(rule, at, startup)
         IN  /\ fires \in Seq(Fire)
             /\ \A i \in 1..Len(fires) : fires[i].kind \in {"fire", "retry"}
<1>1. NoRetry \in Retry /\ rule.retry \in Retry /\ rule.next \in Nat /\ rule.enabled \in BOOLEAN
  BY DEF Rule, Retry, NoRetry
<1> DEFINE n == Least((at - rule.next) \div Period + 1, MaxFireAll)
           all == [i \in 1..n |-> Occurrence(rule.next + (i - 1) * Period)]
           retry == [kind |-> "retry", time |-> rule.retry.orig, attempt |-> rule.retry.attempt]
<1>2. retry \in Fire
  BY <1>1 DEF Retry, Fire
<1>3. Occurrence(rule.next) \in Fire
  BY <1>1 DEF Occurrence, Fire
<1>4. ASSUME rule.next <= at
      PROVE  /\ all \in Seq(Fire)
             /\ \A i \in 1..Len(all) : all[i].kind = "fire"
  <2>1. Period \in Nat \ {0} /\ MaxFireAll \in Nat
    BY SchedulerAssumption
  <2>2. at - rule.next \in Nat
    BY <1>1, <1>4
  <2>3. (at - rule.next) \div Period \in Nat
    BY <2>1, <2>2
  <2>4. n \in Nat
    BY <2>1, <2>3 DEF Least
  <2> HIDE DEF n
  <2>5. ASSUME NEW i \in 1..n
        PROVE  Occurrence(rule.next + (i - 1) * Period) \in Fire
    <3>1. (i - 1) * Period \in Nat
      BY <2>1, <2>4
    <3> QED
      BY <1>1, <3>1 DEF Occurrence, Fire
  <2>6. all \in [1..n -> Fire]
    BY <2>5
  <2>7. all \in Seq(Fire) /\ Len(all) = n
    BY <2>4, <2>6, SeqDef
  <2>8. \A i \in 1..n : all[i].kind = "fire"
    BY DEF Occurrence
  <2> QED
    BY <2>7, <2>8
<1> HIDE DEF all, retry
<1>5. \/ CollectDueFires(rule, at, startup) = <<>>
      \/ CollectDueFires(rule, at, startup) = <<retry>>
      \/ CollectDueFires(rule, at, startup) = <<Occurrence(rule.next)>>
      \/ rule.next <= at /\ CollectDueFires(rule, at, startup) = all
  <2>1. CASE ~rule.enabled \/ rule.retry # NoRetry
    BY <2>1, Zenon DEF CollectDueFires, retry
  <2>2. CASE rule.enabled /\ rule.retry = NoRetry /\ (rule.next = NoFire \/ rule.next > at)
    BY <2>2, Zenon DEF CollectDueFires
  <2>3. CASE rule.enabled /\ rule.retry = NoRetry /\ ~ (rule.next = NoFire \/ rule.next > at)
    <3>1. rule.next <= at
      BY <1>1, <2>3
    <3> QED
      BY <2>3, <3>1, Zenon DEF CollectDueFires, all, n
  <2> QED
    BY <2>1, <2>2, <2>3
<1>6. retry.kind = "retry" /\ Occurrence(rule.next).kind = "fire"
  BY DEF retry, Occurrence
<1>7. CASE CollectDueFires(rule, at, startup) = <<>>
  BY <1>7
<1>8. CASE CollectDueFires(rule, at, startup) = <<retry>>
  BY <1>2, <1>6, <1>8
<1>9. CASE CollectDueFires(rule, at, startup) = <<Occurrence(rule.next)>>
  BY <1>3, <1>6, <1>9
<1> QED
  BY <1>4, <1>5, <1>7, <1>8, <1>9

-----------------------------------------------------------------------------
(***************************************************************************)
(* What a settled fire and an owner's edit do to a rule.                   *)
(***************************************************************************)
RetryAllowed(rule) ==
  rule.retry # NoRetry => rule.retry.attempt \in 1..rule.policy.maxAttempts

NoFireWhenDisabled(rule) == ~rule.enabled => rule.next = NoFire

LEMMA FieldsOfRule ==
  ASSUME NEW rule \in Rule
  PROVE  /\ rule.policy \in Policies /\ rule.rev \in Nat /\ rule.enabled \in BOOLEAN
         /\ rule.next \in Nat /\ rule.failures \in Nat /\ rule.retry \in Retry
         /\ rule.made \in Nat /\ rule.stamp \in Nat
BY DEF Rule

LEMMA AdvancedNext ==
  ASSUME NEW rule \in Rule, NEW fire \in Fire
  PROVE  /\ NextAdvanced(rule, fire) \in Rule
         /\ NextAdvanced(rule, fire) = [rule EXCEPT !.next = NextAdvanced(rule, fire).next]
         /\ NoFireWhenDisabled(NextAdvanced(rule, fire))
         /\ NextAdvanced(rule, fire).next # NoFire =>
              /\ NextAdvanced(rule, fire).next > fire.time
              /\ NextAdvanced(rule, fire).next = NextOccurrence(fire.time)
<1>1. fire.time \in Nat
  BY DEF Fire
<1>2. rule.policy \in Policies
  BY DEF Rule
<1> DEFINE next == ComputeNextFireAfter(rule.policy, fire.time)
<1>3. next \in Nat /\ (next # NoFire => next > fire.time /\ next = NextOccurrence(fire.time))
  BY <1>1, <1>2, NextFireFromFire
<1> HIDE DEF next
<1> QED
  BY <1>3 DEF NextAdvanced, next, Rule, NoFireWhenDisabled, NoFire

\* What the trigger may change of a rule, and what becomes of its retry.
LEMMA AdvancedRuleKeeps ==
  ASSUME NEW rule \in Rule, NEW fire \in Fire, NEW at \in Nat, NEW outcome \in Outcome,
         NEW atStartup \in BOOLEAN
  PROVE  LET new == AdvancedRule(rule, fire, at, outcome, atStartup)
         IN  /\ new \in Rule
             /\ new.policy = rule.policy /\ new.rev = rule.rev /\ new.made = rule.made
             /\ new.stamp = rule.stamp
             /\ new.enabled => rule.enabled
             /\ NoFireWhenDisabled(new)
             /\ new.next # NoFire => new.next > fire.time /\ new.next = NextOccurrence(fire.time)
             /\ RetryAllowed(rule) => RetryAllowed(new)
             /\ \/ new.retry = NoRetry
                \/ outcome = "skipped" /\ new.retry = rule.retry
                \/ /\ outcome = "failed"
                   /\ new.retry.orig = fire.time /\ new.retry.attempt = fire.attempt + 1
<1> DEFINE advanced == NextAdvanced(rule, fire)
           failures == rule.failures + 1
           attempt == fire.attempt + 1
           retry == [attempt |-> attempt, at |-> RetryAt(rule.policy, at, attempt),
                     orig |-> fire.time]
           retried == [advanced EXCEPT !.retry = retry]
           paused == [advanced EXCEPT !.failures = failures, !.retry = NoRetry,
                                      !.enabled = FALSE, !.next = NoFire]
           counted == [advanced EXCEPT !.failures = failures, !.retry = NoRetry]
           admitted == [advanced EXCEPT !.failures = 0, !.retry = NoRetry]
           settled == [advanced EXCEPT !.retry = NoRetry]
<1>1. /\ advanced \in Rule /\ NoFireWhenDisabled(advanced)
      /\ advanced = [rule EXCEPT !.next = advanced.next]
      /\ advanced.next # NoFire =>
           advanced.next > fire.time /\ advanced.next = NextOccurrence(fire.time)
  BY AdvancedNext
<1>2. /\ rule.policy \in Policies /\ failures \in Nat /\ NoRetry \in Retry
      /\ fire.time \in Nat /\ attempt \in Nat \ {0}
  BY DEF Rule, Fire, NoRetry, Retry
<1>3. retry \in Retry
  BY <1>2, RetryIsNotBefore DEF Retry
<1>4. rule.policy.maxAttempts \in Nat
  BY <1>2, SchedulerAssumption DEF PolicyType
<1> HIDE DEF advanced, failures, retry, attempt
<1>5. /\ retried \in Rule /\ paused \in Rule /\ counted \in Rule
      /\ admitted \in Rule /\ settled \in Rule
  BY <1>1, <1>2, <1>3 DEF Rule, NoFire
<1>6. /\ advanced.policy = rule.policy /\ advanced.rev = rule.rev
      /\ advanced.made = rule.made /\ advanced.stamp = rule.stamp
      /\ advanced.enabled = rule.enabled /\ advanced.retry = rule.retry
  BY <1>1 DEF Rule
<1> DEFINE new == AdvancedRule(rule, fire, at, outcome, atStartup)
<1>7. CASE outcome = "failed"
  <2>1. new = IF attempt <= rule.policy.maxAttempts THEN retried
              ELSE IF rule.policy.pauseAfter # 0 /\ failures >= rule.policy.pauseAfter
              THEN paused ELSE counted
    BY <1>7 DEF AdvancedRule, FailedRule, advanced, failures, retry, attempt
  <2>2. CASE new = retried /\ attempt <= rule.policy.maxAttempts
    <3>1. /\ retried.retry = retry /\ retried.policy = rule.policy /\ retried.rev = rule.rev
          /\ retried.made = rule.made /\ retried.stamp = rule.stamp
          /\ retried.enabled = rule.enabled /\ retried.next = advanced.next
      BY <1>1, <1>6 DEF Rule
    <3>2. retry.attempt = attempt /\ retry.orig = fire.time
      BY DEF retry
    <3>3. attempt \in 1..rule.policy.maxAttempts
      BY <1>2, <1>4, <2>2
    <3> QED
      BY <1>1, <1>5, <1>7, <2>2, <3>1, <3>2, <3>3, <1>6
         DEF RetryAllowed, NoFireWhenDisabled, attempt
  <2>3. CASE new = paused
    <3>1. /\ paused.retry = NoRetry /\ paused.policy = rule.policy /\ paused.rev = rule.rev
          /\ paused.made = rule.made /\ paused.stamp = rule.stamp
          /\ paused.enabled = FALSE /\ paused.next = NoFire
      BY <1>1, <1>6 DEF Rule
    <3> QED
      BY <1>5, <2>3, <3>1 DEF RetryAllowed, NoFireWhenDisabled
  <2>4. CASE new = counted
    <3>1. /\ counted.retry = NoRetry /\ counted.policy = rule.policy /\ counted.rev = rule.rev
          /\ counted.made = rule.made /\ counted.stamp = rule.stamp
          /\ counted.enabled = rule.enabled /\ counted.next = advanced.next
      BY <1>1, <1>6 DEF Rule
    <3> QED
      BY <1>1, <1>5, <1>6, <2>4, <3>1 DEF RetryAllowed, NoFireWhenDisabled
  <2> QED
    BY <2>1, <2>2, <2>3, <2>4
<1>8. CASE outcome = "admitted"
  <2>1. new = admitted
    BY <1>8 DEF AdvancedRule, advanced
  <2>2. /\ admitted.retry = NoRetry /\ admitted.policy = rule.policy /\ admitted.rev = rule.rev
        /\ admitted.made = rule.made /\ admitted.stamp = rule.stamp
        /\ admitted.enabled = rule.enabled /\ admitted.next = advanced.next
    BY <1>1, <1>6 DEF Rule
  <2> QED
    BY <1>1, <1>5, <1>6, <2>1, <2>2 DEF RetryAllowed, NoFireWhenDisabled
<1>9. CASE outcome = "skipped"
  <2>1. new = settled \/ new = advanced
    BY <1>9 DEF AdvancedRule, advanced
  <2>2. /\ settled.retry = NoRetry /\ settled.policy = rule.policy /\ settled.rev = rule.rev
        /\ settled.made = rule.made /\ settled.stamp = rule.stamp
        /\ settled.enabled = rule.enabled /\ settled.next = advanced.next
    BY <1>1, <1>6 DEF Rule
  <2> QED
    BY <1>1, <1>5, <1>6, <1>9, <2>1, <2>2 DEF RetryAllowed, NoFireWhenDisabled
<1> QED
  BY <1>7, <1>8, <1>9 DEF Outcome

\* A rule the owner has just written.
LEMMA UpdatedRuleKeeps ==
  ASSUME NEW rule \in Rule, NEW policy \in Policies, NEW enable \in {"on", "off", "keep"},
         now \in Nat, edits \in Nat
  PROVE  LET new == UpdatedRule(rule, policy, enable)
         IN  /\ new \in Rule
             /\ new.made = rule.made /\ new.stamp = edits + 1
             /\ new.rev = rule.rev \/ new.rev = rule.rev + 1
             /\ NoFireWhenDisabled(new)
             /\ new.next # NoFire => new.next > now
             /\ RetryAllowed(rule) => RetryAllowed(new)
             /\ new.retry = NoRetry \/ (new.retry = rule.retry /\ new.rev = rule.rev)
<1> DEFINE enabled == IF enable = "keep" THEN rule.enabled ELSE enable = "on"
           next == ComputeNextFireAt(policy, enabled, now)
           new == UpdatedRule(rule, policy, enable)
<1>1. /\ rule.rev \in Nat /\ rule.enabled \in BOOLEAN /\ rule.failures \in Nat
      /\ rule.retry \in Retry /\ rule.made \in Nat /\ NoRetry \in Retry
  BY DEF Rule, Retry, NoRetry
<1>2. enabled \in BOOLEAN
  BY <1>1
<1> HIDE DEF enabled
<1>3. next \in Nat /\ (next # NoFire => next > now) /\ (~enabled => next = NoFire)
  BY <1>2, NextFireFromClock
<1> HIDE DEF next
<1>4. new = [policy |-> policy,
             rev |-> IF policy # rule.policy THEN rule.rev + 1 ELSE rule.rev,
             enabled |-> enabled, next |-> next,
             failures |-> IF policy # rule.policy \/ enable = "on" THEN 0 ELSE rule.failures,
             retry |-> IF policy # rule.policy \/ enable = "on" THEN NoRetry ELSE rule.retry,
             made |-> rule.made, stamp |-> edits + 1]
  BY DEF UpdatedRule, enabled, next
<1> HIDE DEF new
<1>5. new \in Rule
  <2>1. /\ new.rev \in Nat /\ new.failures \in Nat /\ new.retry \in Retry
        /\ new.made \in Nat /\ new.stamp \in Nat
    BY <1>1, <1>4
  <2> QED
    BY <1>2, <1>3, <1>4, <2>1 DEF Rule
<1>6. /\ new.made = rule.made /\ new.stamp = edits + 1
      /\ new.rev = rule.rev \/ new.rev = rule.rev + 1
      /\ new.retry = NoRetry \/ (new.retry = rule.retry /\ new.rev = rule.rev
                                 /\ new.policy = rule.policy)
      /\ new.enabled = enabled /\ new.next = next
  BY <1>4
<1> QED
  BY <1>3, <1>5, <1>6 DEF NoFireWhenDisabled, RetryAllowed, new

NewRule(policy, enabled) ==
  [policy |-> policy, rev |-> 1, enabled |-> enabled,
   next |-> ComputeNextFireAt(policy, enabled, now),
   failures |-> 0, retry |-> NoRetry, made |-> edits + 1, stamp |-> edits + 1]

LEMMA NewRuleIsFresh ==
  ASSUME NEW policy \in Policies, NEW enabled \in BOOLEAN, now \in Nat, edits \in Nat
  PROVE  /\ NewRule(policy, enabled) \in Rule
         /\ NoFireWhenDisabled(NewRule(policy, enabled))
         /\ NewRule(policy, enabled).next # NoFire => NewRule(policy, enabled).next > now
         /\ NewRule(policy, enabled).retry = NoRetry
         /\ NewRule(policy, enabled).rev = 1 /\ NewRule(policy, enabled).made = edits + 1
<1>1. NoRetry \in Retry
  BY DEF NoRetry, Retry
<1> DEFINE next == ComputeNextFireAt(policy, enabled, now)
<1>2. next \in Nat /\ (next # NoFire => next > now) /\ (~enabled => next = NoFire)
  BY NextFireFromClock
<1> HIDE DEF next
<1>3. NewRule(policy, enabled) =
        [policy |-> policy, rev |-> 1, enabled |-> enabled, next |-> next, failures |-> 0,
         retry |-> NoRetry, made |-> edits + 1, stamp |-> edits + 1]
  BY DEF NewRule, next
<1> QED
  BY <1>1, <1>2, <1>3 DEF Rule, NoFireWhenDisabled

-----------------------------------------------------------------------------
(***************************************************************************)
(* Types.  Beside those of the variables: what a tick and a test fire hold *)
(* at each point, and that their fires are of different kinds.             *)
(***************************************************************************)
Settling == {"receipt", "advance"}
Holding == {"replace", "cancel", "admit"} \cup Settling
AtFire == {"claim"} \cup Holding

FiresOf(p, fires) == \A i \in 1..Len(fires) : (fires[i].kind = "manual") <=> (p = "manual")

Shaped(p, t) ==
  /\ t.pc \in AtFire => t.fires # <<>> /\ t.snap \in Rule
  /\ t.pc \in Settling /\ t.outcome = "admitted" => t.run \in RunIds
  /\ t.pc \notin Settling => t.outcome = "skipped"
  /\ t.pc = "launching" => t.results # <<>>
  /\ p = "manual" => t.pc \notin {"rules", "fires", "advance"}
  /\ FiresOf(p, t.fires)

TypeInv ==
  /\ TypeOK
  /\ \A p \in Procs : Shaped(p, proc[p])

LEMMA IdleType == Idle \in Proc /\ \A p \in Procs : Shaped(p, Idle)
<1>1. (CHOOSE r \in Rules : TRUE) \in Rules
  BY SchedulerAssumption
<1>2. 0 \in Time /\ 0 \in 0..MaxRuns
  BY SchedulerAssumption DEF Time
<1>3. <<>> \in Seq(Fire) /\ <<>> \in Seq(RunIds) /\ Len(<<>>) = 0
  OBVIOUS
<1>4. Idle \in Proc
  BY <1>1, <1>2, <1>3 DEF Idle, Proc, Outcome
<1>5. \A p \in Procs : FiresOf(p, Idle.fires)
  BY <1>3 DEF FiresOf, Idle
<1>6. Idle.pc = "idle" /\ Idle.outcome = "skipped"
  BY DEF Idle
<1> QED
  BY <1>4, <1>5, <1>6 DEF Shaped, AtFire, Holding, Settling

ProcTypes == proc \in [Procs -> Proc] /\ \A p \in Procs : Shaped(p, proc[p])

LEMMA OneMoves ==
  ASSUME TypeInv, NEW p \in Procs, NEW t \in Proc, Shaped(p, t), proc' = [proc EXCEPT ![p] = t]
  PROVE  ProcTypes'
BY DEF ProcTypes, TypeInv, TypeOK

LEMMA FinishType ==
  ASSUME TypeInv, NEW p \in Procs, Finish(p)
  PROVE  ProcTypes'
BY IdleType, OneMoves DEF Finish

LEMMA GotoType ==
  ASSUME TypeInv, NEW p \in Procs, NEW pc, Goto(p, pc),
         [proc[p] EXCEPT !.pc = pc] \in Proc, Shaped(p, [proc[p] EXCEPT !.pc = pc])
  PROVE  ProcTypes'
<1>1. proc' = [proc EXCEPT ![p] = [proc[p] EXCEPT !.pc = pc]]
  BY DEF Goto
<1> QED
  BY <1>1, OneMoves

\* The record of a tick or test fire, field by field.
LEMMA FieldsOfProc ==
  ASSUME NEW t \in Proc
  PROVE  /\ t.at \in Time /\ t.startup \in BOOLEAN /\ t.todo \in SUBSET Rules
         /\ t.rule \in Rules /\ t.snap \in Rule \cup {NoRule} /\ t.fires \in Seq(Fire)
         /\ t.victims \in SUBSET RunIds /\ t.run \in 0..MaxRuns /\ t.outcome \in Outcome
         /\ t.results \in Seq(RunIds)
BY DEF Proc

LEMMA TheFireType ==
  ASSUME TypeInv, NEW p \in Procs, proc[p].pc \in AtFire
  PROVE  /\ TheFire(p) \in Fire
         /\ (TheFire(p).kind = "manual") <=> (p = "manual")
         /\ TheKey(p) \in Key
         /\ proc[p].snap \in Rule
<1>1. proc[p] \in Proc /\ proc[p].fires # <<>> /\ proc[p].snap \in Rule
      /\ FiresOf(p, proc[p].fires)
  BY DEF TypeInv, TypeOK, Shaped
<1>2. proc[p].fires \in Seq(Fire) /\ proc[p].rule \in Rules
  BY <1>1, FieldsOfProc
<1>3. TheFire(p) \in Fire /\ TheFire(p) = proc[p].fires[1] /\ 1 \in 1..Len(proc[p].fires)
  BY <1>1, <1>2, HeadTailProperties DEF TheFire
<1>4. (TheFire(p).kind = "manual") <=> (p = "manual")
  BY <1>1, <1>3 DEF FiresOf
<1>5. proc[p].snap.rev \in Nat
  BY <1>1, FieldsOfRule
<1>6. TheKey(p) \in Key
  BY <1>2, <1>3, <1>5 DEF TheKey, Key, Fire
<1> QED
  BY <1>1, <1>3, <1>4, <1>6

LEMMA TailOfFires ==
  ASSUME NEW p \in Procs, NEW fires \in Seq(Fire), fires # <<>>, FiresOf(p, fires)
  PROVE  Tail(fires) \in Seq(Fire) /\ FiresOf(p, Tail(fires))
<1>1. /\ Tail(fires) \in Seq(Fire) /\ Len(Tail(fires)) = Len(fires) - 1
      /\ \A i \in 1..Len(Tail(fires)) : Tail(fires)[i] = fires[i + 1]
  BY HeadTailProperties
<1>2. Len(fires) \in Nat
  OBVIOUS
<1> QED
  BY <1>1, <1>2 DEF FiresOf

LEMMA NextFireOfType ==
  ASSUME TypeInv, NEW p \in Procs, NEW admitted \in BOOLEAN, proc[p].pc \in AtFire,
         admitted => proc[p].run \in RunIds, NextFireOf(p, admitted)
  PROVE  ProcTypes'
<1> DEFINE results == IF admitted THEN Append(proc[p].results, proc[p].run) ELSE proc[p].results
           t == [Idle EXCEPT !.pc = IF p = "tick" THEN "fires" ELSE "launch",
                             !.at = proc[p].at, !.startup = proc[p].startup,
                             !.todo = proc[p].todo, !.rule = proc[p].rule,
                             !.fires = Tail(proc[p].fires), !.results = results]
<1>1. proc[p] \in Proc /\ proc[p].fires # <<>> /\ FiresOf(p, proc[p].fires)
  BY DEF TypeInv, TypeOK, Shaped
<1>2. Tail(proc[p].fires) \in Seq(Fire) /\ FiresOf(p, Tail(proc[p].fires))
  BY <1>1, FieldsOfProc, TailOfFires
<1>3. results \in Seq(RunIds)
  BY <1>1, FieldsOfProc
<1> HIDE DEF results
<1>4. t \in Proc
  BY <1>1, <1>2, <1>3, IdleType, FieldsOfProc DEF Proc
<1>5. /\ t.fires = Tail(proc[p].fires) /\ t.outcome = "skipped"
      /\ t.pc = IF p = "tick" THEN "fires" ELSE "launch"
  BY DEF Idle
<1> HIDE DEF t
<1>6. Shaped(p, t)
  BY <1>2, <1>5 DEF Shaped, AtFire, Holding, Settling, Procs
<1>7. proc' = [proc EXCEPT ![p] = t]
  BY DEF NextFireOf, t, results
<1> QED
  BY <1>4, <1>6, <1>7, OneMoves

LEMMA BeginTickType ==
  ASSUME TypeInv, NEW startup \in BOOLEAN, BeginTick(startup)
  PROVE  ProcTypes'
<1> DEFINE t == [Idle EXCEPT !.pc = "rules", !.at = now, !.startup = startup,
                             !.todo = {r \in Rules : rules[r] # NoRule}]
<1>1. t \in Proc
  BY IdleType DEF TypeInv, TypeOK, Proc
<1>2. t.fires = Idle.fires /\ t.outcome = Idle.outcome /\ t.pc = "rules"
  BY IdleType DEF Proc
<1>3. Idle.outcome = "skipped" /\ FiresOf("tick", Idle.fires)
  BY IdleType DEF Shaped, Procs, Idle
<1> HIDE DEF t
<1>4. Shaped("tick", t)
  BY <1>2, <1>3 DEF Shaped, AtFire, Holding, Settling
<1>5. proc' = [proc EXCEPT !["tick"] = t]
  BY DEF BeginTick, t
<1> QED
  BY <1>1, <1>4, <1>5, OneMoves DEF Procs

LEMMA ReadRuleType ==
  ASSUME TypeInv, NEW p \in Procs, ReadRule(p)
  PROVE  p = "tick" /\ ProcTypes'
<1>1. /\ proc[p] \in Proc /\ Shaped(p, proc[p]) /\ proc[p].pc = "rules"
      /\ rules \in [Rules -> Rule \cup {NoRule}]
  BY DEF TypeInv, TypeOK, ReadRule
<1>2. p = "tick" /\ proc[p].outcome = "skipped"
  BY <1>1 DEF Shaped, Procs, Settling
<1>3. CASE Goto(p, "launch")
  <2> DEFINE t == [proc[p] EXCEPT !.pc = "launch"]
  <2>1. t \in Proc /\ t.pc = "launch" /\ t.outcome = "skipped" /\ t.fires = proc[p].fires
    BY <1>1, <1>2 DEF Proc
  <2>2. Shaped(p, t)
    BY <1>1, <1>2, <2>1 DEF Shaped, AtFire, Holding, Settling
  <2> QED
    BY <1>2, <1>3, <2>1, <2>2, GotoType
<1>4. ASSUME NEW r \in proc[p].todo,
             proc' = [proc EXCEPT
               ![p].todo = @ \ {r}, ![p].rule = r, ![p].pc = "fires",
               ![p].fires = IF rules[r] = NoRule THEN <<>>
                            ELSE CollectDueFires(rules[r], proc[p].at, proc[p].startup)]
      PROVE  ProcTypes'
  <2> DEFINE fires == IF rules[r] = NoRule THEN <<>>
                      ELSE CollectDueFires(rules[r], proc[p].at, proc[p].startup)
             t == [proc[p] EXCEPT !.todo = @ \ {r}, !.rule = r, !.pc = "fires", !.fires = fires]
  <2>1. r \in Rules /\ proc[p].at \in Nat /\ proc[p].startup \in BOOLEAN
    BY <1>1, FieldsOfProc DEF Time
  <2>2. rules[r] # NoRule => rules[r] \in Rule
    BY <1>1, <2>1
  <2>3. fires \in Seq(Fire) /\ FiresOf(p, fires)
    <3>1. CASE rules[r] = NoRule
      BY <3>1 DEF FiresOf
    <3>2. CASE rules[r] # NoRule
      BY <1>2, <2>1, <2>2, <3>2, DueFires DEF FiresOf
    <3> QED
      BY <3>1, <3>2
  <2> HIDE DEF fires
  <2>4. t \in Proc /\ t.pc = "fires" /\ t.outcome = "skipped" /\ t.fires = fires
    BY <1>1, <1>2, <2>1, <2>3 DEF Proc
  <2>5. proc' = [proc EXCEPT ![p] = t]
    BY <1>4 DEF fires
  <2> HIDE DEF t
  <2>6. Shaped(p, t)
    BY <1>2, <2>3, <2>4 DEF Shaped, AtFire, Holding, Settling
  <2> QED
    BY <2>4, <2>5, <2>6, OneMoves
<1> QED
  BY <1>2, <1>3, <1>4 DEF ReadRule

LEMMA ReadLatestRuleType ==
  ASSUME TypeInv, NEW p \in Procs, ReadLatestRule(p)
  PROVE  p = "tick" /\ ProcTypes'
<1>1. /\ proc[p] \in Proc /\ Shaped(p, proc[p]) /\ proc[p].pc = "fires"
      /\ rules \in [Rules -> Rule \cup {NoRule}] /\ proc \in [Procs -> Proc]
  BY DEF TypeInv, TypeOK, ReadLatestRule
<1>2. p = "tick" /\ proc[p].outcome = "skipped" /\ FiresOf(p, proc[p].fires)
      /\ proc[p].fires \in Seq(Fire) /\ proc[p].rule \in Rules
  BY <1>1, FieldsOfProc DEF Shaped, Procs, Settling
<1> DEFINE latest == rules[proc[p].rule]
           a == [proc[p] EXCEPT !.pc = "rules"]
           b == [proc[p] EXCEPT !.fires = Tail(@)]
           c == [proc[p] EXCEPT !.pc = "claim", !.snap = latest]
<1>3. \/ proc[p].fires = <<>> /\ proc' = [proc EXCEPT ![p] = a]
      \/ proc[p].fires # <<>> /\ latest = NoRule /\ proc' = [proc EXCEPT ![p] = b]
      \/ proc[p].fires # <<>> /\ latest # NoRule /\ proc' = [proc EXCEPT ![p] = c]
  BY <1>1 DEF ReadLatestRule, Goto
<1>4. CASE proc' = [proc EXCEPT ![p] = a]
  <2>1. a \in Proc /\ a.pc = "rules" /\ a.outcome = "skipped" /\ a.fires = proc[p].fires
    BY <1>1, <1>2 DEF Proc
  <2>2. Shaped(p, a)
    BY <1>2, <2>1 DEF Shaped, AtFire, Holding, Settling
  <2> HIDE DEF a
  <2> QED
    BY <1>2, <1>4, <2>1, <2>2, OneMoves
<1>5. CASE proc[p].fires # <<>> /\ proc' = [proc EXCEPT ![p] = b]
  <2>1. Tail(proc[p].fires) \in Seq(Fire) /\ FiresOf(p, Tail(proc[p].fires))
    BY <1>2, <1>5, TailOfFires
  <2>2. b \in Proc /\ b.pc = "fires" /\ b.outcome = "skipped" /\ b.fires = Tail(proc[p].fires)
    BY <1>1, <1>2, <2>1 DEF Proc
  <2>3. Shaped(p, b)
    BY <1>2, <2>1, <2>2 DEF Shaped, AtFire, Holding, Settling
  <2> HIDE DEF b
  <2> QED
    BY <1>2, <1>5, <2>2, <2>3, OneMoves
<1>6. CASE proc[p].fires # <<>> /\ latest # NoRule /\ proc' = [proc EXCEPT ![p] = c]
  <2>1. latest \in Rule
    BY <1>1, <1>2, <1>6
  <2>2. /\ c \in Proc /\ c.pc = "claim" /\ c.outcome = "skipped" /\ c.fires = proc[p].fires
        /\ c.snap = latest
    BY <1>1, <1>2, <2>1 DEF Proc
  <2>3. Shaped(p, c)
    BY <1>2, <1>6, <2>1, <2>2 DEF Shaped, AtFire, Holding, Settling
  <2> HIDE DEF c
  <2> QED
    BY <1>2, <1>6, <2>2, <2>3, OneMoves
<1> QED
  BY <1>2, <1>3, <1>4, <1>5, <1>6

LEMMA ManualTestFireType ==
  ASSUME TypeInv, NEW r \in Rules, ManualTestFire(r)
  PROVE  ProcTypes'
<1> DEFINE fire == [kind |-> "manual", time |-> now, attempt |-> 0]
           t == [Idle EXCEPT !.pc = "claim", !.at = now, !.rule = r, !.snap = rules[r],
                             !.fires = <<fire>>]
<1>1. now \in Time /\ now \in Nat /\ rules[r] \in Rule
  BY DEF TypeInv, TypeOK, ManualTestFire, Time
<1>2. fire \in Fire /\ fire.kind = "manual"
  BY <1>1 DEF Fire
<1> HIDE DEF fire
<1>3. <<fire>> \in Seq(Fire) /\ FiresOf("manual", <<fire>>) /\ <<fire>> # <<>>
  BY <1>2 DEF FiresOf
<1>4. /\ t \in Proc /\ t.pc = "claim" /\ t.outcome = Idle.outcome /\ t.fires = <<fire>>
      /\ t.snap = rules[r]
  BY <1>1, <1>3, IdleType DEF Proc
<1>5. Idle.outcome = "skipped"
  BY DEF Idle
<1>6. proc' = [proc EXCEPT !["manual"] = t]
  BY DEF ManualTestFire, fire
<1> HIDE DEF t
<1>7. Shaped("manual", t)
  BY <1>1, <1>3, <1>4, <1>5 DEF Shaped, AtFire, Holding, Settling
<1> QED
  BY <1>4, <1>6, <1>7, OneMoves DEF Procs

\* The pc alone moves from one point of holding a fire to another.
LEMMA GotoFireType ==
  ASSUME TypeInv, NEW p \in Procs, proc[p].pc \in AtFire,
         NEW pc \in {"replace", "admit", "receipt", "advance"}, Goto(p, pc),
         pc \in Settling \/ proc[p].pc \notin Settling,
         proc[p].pc \in Settling \/ proc[p].outcome # "admitted",
         pc = "advance" => p = "tick"
  PROVE  ProcTypes'
<1> DEFINE t == [proc[p] EXCEPT !.pc = pc]
<1>1. proc[p] \in Proc /\ Shaped(p, proc[p])
  BY DEF TypeInv, TypeOK
<1>2. /\ t \in Proc /\ t.pc = pc /\ t.outcome = proc[p].outcome /\ t.fires = proc[p].fires
      /\ t.snap = proc[p].snap /\ t.run = proc[p].run
  BY <1>1 DEF Proc
<1> HIDE DEF t
<1>3. Shaped(p, t)
  BY <1>1, <1>2 DEF Shaped, AtFire, Holding, Settling, Procs
<1> QED
  BY <1>2, <1>3, GotoType DEF t

LEMMA FailFireType ==
  ASSUME TypeInv, NEW p \in Procs, proc[p].pc \in AtFire, FailFire(p)
  PROVE  ProcTypes'
<1> DEFINE t == [proc[p] EXCEPT !.pc = "receipt", !.outcome = "failed"]
<1>1. proc[p] \in Proc /\ Shaped(p, proc[p])
  BY DEF TypeInv, TypeOK
<1>2. /\ t \in Proc /\ t.pc = "receipt" /\ t.outcome = "failed" /\ t.fires = proc[p].fires
      /\ t.snap = proc[p].snap
  BY <1>1 DEF Proc, Outcome
<1>3. proc' = [proc EXCEPT ![p] = t]
  BY DEF FailFire
<1> HIDE DEF t
<1>4. Shaped(p, t)
  BY <1>1, <1>2 DEF Shaped, AtFire, Holding, Settling, Procs
<1> QED
  BY <1>2, <1>3, <1>4, OneMoves

LEMMA ClaimType ==
  ASSUME TypeInv, NEW p \in Procs, Claim(p)
  PROVE  /\ ProcTypes'
         /\ DOMAIN receipts' \subseteq Key
         /\ \A k \in DOMAIN receipts' : receipts'[k] \in ReceiptStatus
<1>1. proc[p].pc = "claim" /\ proc[p].pc \in AtFire /\ proc[p].outcome = "skipped"
  BY DEF Claim, AtFire, TypeInv, Shaped, Settling
<1>2. TheKey(p) \in Key
  BY <1>1, TheFireType
<1>3. ProcTypes'
  <2>1. CASE Finish(p)
    BY <2>1, FinishType
  <2>2. CASE NextFireOf(p, FALSE)
    BY <1>1, <2>2, NextFireOfType
  <2>3. ASSUME NEW pc \in {"receipt", "replace", "admit"}, Goto(p, pc) PROVE ProcTypes'
    BY <1>1, <2>3, GotoFireType DEF Settling
  <2> QED
    BY <2>1, <2>2, <2>3 DEF Claim
<1>4. UNCHANGED receipts \/ receipts' = [x \in DOMAIN receipts \cup {TheKey(p)} |->
                                          IF x = TheKey(p) THEN "claimed" ELSE receipts[x]]
  BY DEF Claim
<1> QED
  BY <1>2, <1>3, <1>4 DEF TypeInv, TypeOK, ReceiptStatus

LEMMA ReadActiveRunsType ==
  ASSUME TypeInv, NEW p \in Procs, ReadActiveRuns(p)
  PROVE  ProcTypes'
<1> DEFINE victims == ActiveRuns(proc[p].rule)
           t == [proc[p] EXCEPT !.victims = victims,
                                !.pc = IF victims = {} THEN "admit" ELSE "cancel"]
<1>1. proc[p] \in Proc /\ Shaped(p, proc[p]) /\ proc[p].pc = "replace"
  BY DEF TypeInv, TypeOK, ReadActiveRuns
<1>2. victims \in SUBSET RunIds
  BY DEF ActiveRuns
<1> HIDE DEF victims
<1>3. /\ t \in Proc /\ t.pc \in {"admit", "cancel"} /\ t.outcome = proc[p].outcome
      /\ t.fires = proc[p].fires /\ t.snap = proc[p].snap
  BY <1>1, <1>2 DEF Proc
<1>4. proc' = [proc EXCEPT ![p] = t]
  BY DEF ReadActiveRuns, victims
<1> HIDE DEF t
<1>5. Shaped(p, t)
  BY <1>1, <1>3 DEF Shaped, AtFire, Holding, Settling
<1> QED
  BY <1>3, <1>4, <1>5, OneMoves

LEMMA StatusType ==
  ASSUME TypeInv, NEW i \in RunIds, NEW status \in ActiveStatus \cup {"cancelled"},
         runs' = [runs EXCEPT ![i].status = status]
  PROVE  runs' \in [RunIds -> RunRow]
BY DEF TypeInv, TypeOK, RunRow

LEMMA CancelVictimType ==
  ASSUME TypeInv, NEW p \in Procs, CancelVictim(p)
  PROVE  ProcTypes' /\ runs' \in [RunIds -> RunRow]
<1>1. proc[p] \in Proc /\ Shaped(p, proc[p]) /\ proc[p].pc = "cancel" /\ proc[p].pc \in AtFire
  BY DEF TypeInv, TypeOK, CancelVictim, AtFire, Holding
<1>2. proc[p].victims \in SUBSET RunIds
  BY <1>1, FieldsOfProc
<1>3. CASE FailFire(p) /\ UNCHANGED runs
  BY <1>1, <1>3, FailFireType DEF TypeInv, TypeOK
<1>4. ASSUME NEW i \in proc[p].victims,
             runs' = IF runs[i].status \in ActiveStatus
                     THEN [runs EXCEPT ![i].status = "cancelled"] ELSE runs,
             proc' = [proc EXCEPT ![p].victims = @ \ {i},
                                  ![p].pc = IF proc[p].victims = {i} THEN "admit" ELSE @]
      PROVE  ProcTypes' /\ runs' \in [RunIds -> RunRow]
  <2> DEFINE t == [proc[p] EXCEPT !.victims = @ \ {i},
                                  !.pc = IF proc[p].victims = {i} THEN "admit" ELSE @]
  <2>1. /\ t \in Proc /\ t.pc \in {"admit", "cancel"} /\ t.outcome = proc[p].outcome
        /\ t.fires = proc[p].fires /\ t.snap = proc[p].snap
    BY <1>1, <1>2 DEF Proc
  <2>2. proc' = [proc EXCEPT ![p] = t]
    BY <1>4
  <2> HIDE DEF t
  <2>3. Shaped(p, t)
    BY <1>1, <2>1 DEF Shaped, AtFire, Holding, Settling
  <2>4. ProcTypes'
    BY <2>1, <2>2, <2>3, OneMoves
  <2>5. runs' \in [RunIds -> RunRow]
    BY <1>2, <1>4, StatusType DEF TypeInv, TypeOK
  <2> QED
    BY <2>4, <2>5
<1> QED
  BY <1>3, <1>4 DEF CancelVictim

LEMMA AdmitType ==
  ASSUME TypeInv, NEW p \in Procs, AdmitMissionAndRun(p)
  PROVE  ProcTypes' /\ runs' \in [RunIds -> RunRow]
<1>1. /\ proc[p] \in Proc /\ Shaped(p, proc[p]) /\ proc[p].pc = "admit" /\ proc[p].pc \in AtFire
      /\ runs \in [RunIds -> RunRow]
  BY DEF TypeInv, TypeOK, AdmitMissionAndRun, AtFire, Holding
<1>2. proc[p].outcome = "skipped"
  BY <1>1 DEF Shaped, Settling
<1>3. CASE FailFire(p) /\ UNCHANGED runs
  BY <1>1, <1>3, FailFireType
<1>4. CASE Goto(p, "receipt") /\ UNCHANGED runs
  BY <1>1, <1>2, <1>4, GotoFireType DEF Settling
<1>5. ASSUME NEW i \in RunIds,
             runs' = [runs EXCEPT ![i] = [status |-> "queued", key |-> TheKey(p),
                                          under |-> Policy(p).concurrency,
                                          made |-> proc[p].snap.made]],
             proc' = [proc EXCEPT ![p].pc = "receipt", ![p].outcome = "admitted", ![p].run = i]
      PROVE  ProcTypes' /\ runs' \in [RunIds -> RunRow]
  <2> DEFINE t == [proc[p] EXCEPT !.pc = "receipt", !.outcome = "admitted", !.run = i]
             row == [status |-> "queued", key |-> TheKey(p),
                     under |-> Policy(p).concurrency, made |-> proc[p].snap.made]
  <2>1. i \in 0..MaxRuns
    BY SchedulerAssumption DEF RunIds
  <2>2. /\ t \in Proc /\ t.pc = "receipt" /\ t.outcome = "admitted" /\ t.run = i
        /\ t.fires = proc[p].fires /\ t.snap = proc[p].snap
    BY <1>1, <2>1 DEF Proc, Outcome
  <2>3. proc' = [proc EXCEPT ![p] = t]
    BY <1>5
  <2> HIDE DEF t
  <2>4. Shaped(p, t)
    BY <1>1, <2>2 DEF Shaped, AtFire, Holding, Settling
  <2>5. ProcTypes'
    BY <2>2, <2>3, <2>4, OneMoves
  <2>6. TheKey(p) \in Key /\ proc[p].snap \in Rule
    BY <1>1, TheFireType
  <2>7. Policy(p).concurrency \in {"skip", "queue", "replace"} /\ proc[p].snap.made \in Nat
    BY <2>6, FieldsOfRule, SchedulerAssumption DEF Policy, PolicyType
  <2>8. row \in RunRow
    BY <2>6, <2>7 DEF RunRow, ActiveStatus
  <2>9. runs' = [runs EXCEPT ![i] = row]
    BY <1>5
  <2> HIDE DEF row
  <2> QED
    BY <1>1, <2>5, <2>8, <2>9
<1> QED
  BY <1>3, <1>4, <1>5 DEF AdmitMissionAndRun

LEMMA UpdateReceiptType ==
  ASSUME TypeInv, NEW p \in Procs, UpdateReceipt(p)
  PROVE  /\ ProcTypes'
         /\ DOMAIN receipts' \subseteq Key
         /\ \A k \in DOMAIN receipts' : receipts'[k] \in ReceiptStatus
<1>1. proc[p] \in Proc /\ Shaped(p, proc[p]) /\ proc[p].pc = "receipt" /\ proc[p].pc \in AtFire
  BY DEF TypeInv, TypeOK, UpdateReceipt, AtFire, Holding, Settling
<1>2. proc[p].outcome \in Outcome /\ (proc[p].outcome = "admitted" => proc[p].run \in RunIds)
  BY <1>1, FieldsOfProc DEF Shaped, Settling
<1>3. ASSUME p = "manual" PROVE ProcTypes'
  <2> DEFINE admitted == proc[p].outcome = "admitted"
  <2>1. admitted \in BOOLEAN /\ NextFireOf(p, admitted)
    BY <1>3 DEF UpdateReceipt
  <2>2. admitted => proc[p].run \in RunIds
    BY <1>2
  <2> HIDE DEF admitted
  <2> QED
    BY <1>1, <2>1, <2>2, NextFireOfType
<1>4. ASSUME p # "manual" PROVE ProcTypes'
  <2>1. p = "tick" /\ Goto(p, "advance")
    BY <1>4 DEF UpdateReceipt, Procs
  <2>2. "advance" \in {"replace", "admit", "receipt", "advance"}
        /\ "advance" \in Settling /\ proc[p].pc \in Settling
    BY <1>1 DEF Settling
  <2> QED
    BY <1>1, <2>1, <2>2, GotoFireType
<1> QED
  BY <1>2, <1>3, <1>4 DEF UpdateReceipt, TypeInv, TypeOK, ReceiptStatus

LEMMA AdvanceRules ==
  ASSUME TypeInv, NEW p \in Procs, proc[p].pc = "advance"
  PROVE  /\ AdvancedRule(proc[p].snap, TheFire(p), proc[p].at, proc[p].outcome, SkipsFire(p)) \in Rule
         /\ proc[p].snap \in Rule /\ TheFire(p) \in Fire /\ proc[p].at \in Nat
         /\ proc[p].outcome \in Outcome /\ SkipsFire(p) \in BOOLEAN
<1>1. proc[p] \in Proc /\ proc[p].pc \in AtFire
  BY DEF TypeInv, TypeOK, AtFire, Holding, Settling
<1>2. proc[p].at \in Nat /\ proc[p].outcome \in Outcome /\ SkipsFire(p) \in BOOLEAN
  BY <1>1, FieldsOfProc DEF Time, SkipsFire
<1>3. proc[p].snap \in Rule /\ TheFire(p) \in Fire
  BY <1>1, TheFireType
<1> QED
  BY <1>2, <1>3, AdvancedRuleKeeps

LEMMA AdvanceType ==
  ASSUME TypeInv, NEW p \in Procs, Advance(p)
  PROVE  ProcTypes' /\ rules' \in [Rules -> Rule \cup {NoRule}]
<1>1. proc[p] \in Proc /\ Shaped(p, proc[p]) /\ proc[p].pc = "advance" /\ proc[p].pc \in AtFire
  BY DEF TypeInv, TypeOK, Advance, AtFire, Holding, Settling
<1>2. proc[p].outcome = "admitted" => proc[p].run \in RunIds
  BY <1>1 DEF Shaped, Settling
<1>3. ProcTypes'
  BY <1>1, <1>2, NextFireOfType, FinishType, FailFireType DEF Advance
<1>4. rules' \in [Rules -> Rule \cup {NoRule}]
  BY <1>1, AdvanceRules DEF Advance, SavedRule, TypeInv, TypeOK
<1> QED
  BY <1>3, <1>4

LEMMA WriteFailsType ==
  ASSUME TypeInv, NEW p \in Procs, WriteFails(p)
  PROVE  ProcTypes' /\ faults' \in 0..MaxFaults
<1>1. faults' \in 0..MaxFaults
  BY SchedulerAssumption DEF WriteFails, TypeInv, TypeOK
<1>2. proc[p].pc \in AtFire
  BY DEF WriteFails, AtFire, Holding, Settling
<1> QED
  BY <1>1, <1>2, FinishType, FailFireType DEF WriteFails

LEMMA LaunchRunType ==
  ASSUME TypeInv, NEW p \in Procs, LaunchRun(p)
  PROVE  ProcTypes' /\ runs' \in [RunIds -> RunRow]
<1>1. /\ proc[p] \in Proc /\ Shaped(p, proc[p]) /\ proc[p].pc = "launch"
      /\ runs \in [RunIds -> RunRow]
  BY DEF TypeInv, TypeOK, LaunchRun
<1>2. proc[p].results \in Seq(RunIds)
  BY <1>1, FieldsOfProc
<1>3. CASE Finish(p) /\ UNCHANGED runs
  BY <1>1, <1>3, FinishType
<1>4. CASE /\ proc[p].results # <<>> /\ Goto(p, "launching")
           /\ runs' = [runs EXCEPT ![Head(proc[p].results)].status = "running"]
  <2> DEFINE t == [proc[p] EXCEPT !.pc = "launching"]
  <2>1. /\ t \in Proc /\ t.pc = "launching" /\ t.outcome = proc[p].outcome
        /\ t.fires = proc[p].fires /\ t.results = proc[p].results
    BY <1>1 DEF Proc
  <2> HIDE DEF t
  <2>2. Shaped(p, t)
    BY <1>1, <1>4, <2>1 DEF Shaped, AtFire, Holding, Settling
  <2>3. ProcTypes'
    BY <1>4, <2>1, <2>2, GotoType DEF t
  <2>4. Head(proc[p].results) \in RunIds
    BY <1>2, <1>4
  <2> QED
    BY <1>4, <2>3, <2>4, StatusType DEF ActiveStatus
<1>5. CASE /\ proc[p].results # <<>> /\ proc' = [proc EXCEPT ![p].results = Tail(@)]
           /\ UNCHANGED runs
  <2> DEFINE t == [proc[p] EXCEPT !.results = Tail(@)]
  <2>1. Tail(proc[p].results) \in Seq(RunIds)
    BY <1>2, <1>5
  <2>2. /\ t \in Proc /\ t.pc = "launch" /\ t.outcome = proc[p].outcome
        /\ t.fires = proc[p].fires
    BY <1>1, <2>1 DEF Proc
  <2>3. proc' = [proc EXCEPT ![p] = t]
    BY <1>5
  <2> HIDE DEF t
  <2>4. Shaped(p, t)
    BY <1>1, <2>2 DEF Shaped, AtFire, Holding, Settling
  <2> QED
    BY <1>1, <1>5, <2>2, <2>3, <2>4, OneMoves
<1> QED
  BY <1>3, <1>4, <1>5 DEF LaunchRun

LEMMA LaunchReturnsType ==
  ASSUME TypeInv, NEW p \in Procs, LaunchReturns(p)
  PROVE  ProcTypes' /\ runs' \in [RunIds -> RunRow]
<1>1. /\ proc[p] \in Proc /\ Shaped(p, proc[p]) /\ proc[p].pc = "launching"
      /\ runs \in [RunIds -> RunRow]
  BY DEF TypeInv, TypeOK, LaunchReturns
<1>2. proc[p].results \in Seq(RunIds) /\ proc[p].results # <<>>
  BY <1>1, FieldsOfProc DEF Shaped
<1>3. Tail(proc[p].results) \in Seq(RunIds) /\ Head(proc[p].results) \in RunIds
  BY <1>2
<1> DEFINE t == [proc[p] EXCEPT !.results = Tail(@), !.pc = "launch"]
<1>4. /\ t \in Proc /\ t.pc = "launch" /\ t.outcome = proc[p].outcome
      /\ t.fires = proc[p].fires
  BY <1>1, <1>3 DEF Proc
<1>5. proc' = [proc EXCEPT ![p] = t]
  BY DEF LaunchReturns
<1> HIDE DEF t
<1>6. Shaped(p, t)
  BY <1>1, <1>4 DEF Shaped, AtFire, Holding, Settling
<1>7. runs' \in [RunIds -> RunRow]
  BY <1>1, <1>3, StatusType DEF LaunchReturns, ActiveStatus
<1> QED
  BY <1>4, <1>5, <1>6, <1>7, OneMoves

LEMMA OwnerType ==
  ASSUME TypeInv,
         NEW r \in Rules, NEW policy \in Policies, NEW enabled \in BOOLEAN,
         NEW enable \in {"on", "off", "keep"},
         CreateRule(r, policy, enabled) \/ UpdateRule(r, policy, enable) \/ DropRule(r)
  PROVE  /\ rules' \in [Rules -> Rule \cup {NoRule}] /\ deleted' \in SUBSET Rules
         /\ edits' \in 0..MaxEdits
<1>1. now \in Nat /\ edits \in Nat /\ rules \in [Rules -> Rule \cup {NoRule}]
      /\ deleted \in SUBSET Rules /\ edits \in 0..MaxEdits
  BY DEF TypeInv, TypeOK, Time
<1>2. CASE CreateRule(r, policy, enabled)
  <2>1. rules' = [rules EXCEPT ![r] = NewRule(policy, enabled)]
    BY <1>2 DEF CreateRule, NewRule
  <2>2. NewRule(policy, enabled) \in Rule
    BY <1>1, NewRuleIsFresh
  <2>3. edits' \in 0..MaxEdits /\ deleted' = deleted
    BY <1>1, <1>2, SchedulerAssumption DEF CreateRule, Edit
  <2> QED
    BY <1>1, <2>1, <2>2, <2>3
<1>3. CASE UpdateRule(r, policy, enable)
  <2>1. rules' = [rules EXCEPT ![r] = UpdatedRule(rules[r], policy, enable)] /\ rules[r] \in Rule
    BY <1>1, <1>3 DEF UpdateRule
  <2>2. UpdatedRule(rules[r], policy, enable) \in Rule
    BY <1>1, <2>1, UpdatedRuleKeeps
  <2>3. edits' \in 0..MaxEdits /\ deleted' = deleted
    BY <1>1, <1>3, SchedulerAssumption DEF UpdateRule, Edit
  <2> QED
    BY <1>1, <2>1, <2>2, <2>3
<1>4. CASE DropRule(r)
  BY <1>1, <1>4 DEF DropRule
<1> QED
  BY <1>2, <1>3, <1>4

LEMMA StopRunType ==
  ASSUME TypeInv, NEW i \in RunIds, StopRun(i)
  PROVE  runs' \in [RunIds -> RunRow]
BY StatusType DEF StopRun

-----------------------------------------------------------------------------
LEMMA TypeInvariant == Spec => []TypeInv
<1>1. Init => TypeInv
  <2> SUFFICES ASSUME Init PROVE TypeInv
    OBVIOUS
  <2>1. 0 \in Time /\ 0 \in 0..MaxEdits /\ 0 \in 0..MaxFaults /\ 0 \in 0..MaxCrashes
    BY SchedulerAssumption DEF Time
  <2>2. NoRun \in RunRow
    BY DEF NoRun, RunRow
  <2>3. ProcTypes
    BY IdleType DEF Init, ProcTypes
  <2> QED
    BY <2>1, <2>2, <2>3 DEF Init, TypeInv, TypeOK, ProcTypes
<1>2. TypeInv /\ [Next]_vars => TypeInv'
  <2> SUFFICES ASSUME TypeInv, [Next]_vars PROVE TypeInv'
    OBVIOUS
  <2>1. SUFFICES ProcTypes' /\ TypeOK'
    BY DEF ProcTypes, TypeInv
  <2> USE DEF clockVars
  <2>2. CASE TickStart
    BY <2>2, BeginTickType DEF TickStart, TypeInv, TypeOK, ProcTypes
  <2>3. ASSUME NEW p \in Procs, ReadRule(p) PROVE ProcTypes' /\ TypeOK'
    BY <2>3, ReadRuleType DEF ReadRule, TypeInv, TypeOK, ProcTypes
  <2>4. ASSUME NEW p \in Procs, ReadLatestRule(p) PROVE ProcTypes' /\ TypeOK'
    BY <2>4, ReadLatestRuleType DEF ReadLatestRule, TypeInv, TypeOK, ProcTypes
  <2>5. ASSUME NEW p \in Procs, Claim(p) PROVE ProcTypes' /\ TypeOK'
    BY <2>5, ClaimType DEF Claim, TypeInv, TypeOK, ProcTypes
  <2>6. ASSUME NEW p \in Procs, ReadActiveRuns(p) PROVE ProcTypes' /\ TypeOK'
    BY <2>6, ReadActiveRunsType DEF ReadActiveRuns, TypeInv, TypeOK, ProcTypes
  <2>7. ASSUME NEW p \in Procs, CancelVictim(p) PROVE ProcTypes' /\ TypeOK'
    BY <2>7, CancelVictimType DEF CancelVictim, TypeInv, TypeOK, ProcTypes
  <2>8. ASSUME NEW p \in Procs, AdmitMissionAndRun(p) PROVE ProcTypes' /\ TypeOK'
    BY <2>8, AdmitType DEF AdmitMissionAndRun, TypeInv, TypeOK, ProcTypes
  <2>9. ASSUME NEW p \in Procs, UpdateReceipt(p) PROVE ProcTypes' /\ TypeOK'
    BY <2>9, UpdateReceiptType DEF UpdateReceipt, TypeInv, TypeOK, ProcTypes
  <2>10. ASSUME NEW p \in Procs, Advance(p) PROVE ProcTypes' /\ TypeOK'
    BY <2>10, AdvanceType DEF Advance, TypeInv, TypeOK, ProcTypes
  <2>11. ASSUME NEW p \in Procs, WriteFails(p) PROVE ProcTypes' /\ TypeOK'
    BY <2>11, WriteFailsType DEF WriteFails, TypeInv, TypeOK, ProcTypes
  <2>12. ASSUME NEW p \in Procs, LaunchRun(p) PROVE ProcTypes' /\ TypeOK'
    BY <2>12, LaunchRunType DEF LaunchRun, TypeInv, TypeOK, ProcTypes
  <2>13. ASSUME NEW p \in Procs, LaunchReturns(p) PROVE ProcTypes' /\ TypeOK'
    BY <2>13, LaunchReturnsType DEF LaunchReturns, TypeInv, TypeOK, ProcTypes
  <2>14. ASSUME NEW r \in Rules, NEW policy \in Policies, NEW enabled \in BOOLEAN,
                CreateRule(r, policy, enabled)
         PROVE  ProcTypes' /\ TypeOK'
    <3>1. "on" \in {"on", "off", "keep"}
      OBVIOUS
    <3> QED
      BY <2>14, <3>1, OwnerType DEF CreateRule, TypeInv, TypeOK, ProcTypes
  <2>15. ASSUME NEW r \in Rules, NEW policy \in Policies, NEW enable \in {"on", "off", "keep"},
                UpdateRule(r, policy, enable)
         PROVE  ProcTypes' /\ TypeOK'
    <3>1. TRUE \in BOOLEAN
      OBVIOUS
    <3> QED
      BY <2>15, <3>1, OwnerType DEF UpdateRule, TypeInv, TypeOK, ProcTypes
  <2>16. ASSUME NEW r \in Rules, DropRule(r) PROVE ProcTypes' /\ TypeOK'
    BY <2>16 DEF DropRule, TypeInv, TypeOK, ProcTypes
  <2>17. ASSUME NEW r \in Rules, ManualTestFire(r) PROVE ProcTypes' /\ TypeOK'
    BY <2>17, ManualTestFireType DEF ManualTestFire, TypeInv, TypeOK, ProcTypes
  <2>18. ASSUME NEW i \in RunIds, StopRun(i) PROVE ProcTypes' /\ TypeOK'
    BY <2>18, StopRunType DEF StopRun, TypeInv, TypeOK, ProcTypes
  <2>19. CASE ClockTick
    BY <2>19, SchedulerAssumption DEF ClockTick, TypeInv, TypeOK, ProcTypes, Time
  <2>20. CASE Crash
    <3>1. crashes' \in 0..MaxCrashes
      BY <2>20, SchedulerAssumption DEF Crash, TypeInv, TypeOK
    <3>2. ProcTypes'
      BY <2>20, IdleType DEF Crash, ProcTypes
    <3> QED
      BY <2>20, <3>1, <3>2 DEF Crash, TypeInv, TypeOK, ProcTypes
  <2>21. CASE Restart
    BY <2>21, BeginTickType DEF Restart, TypeInv, TypeOK, ProcTypes
  <2>22. CASE UNCHANGED vars
    BY <2>22 DEF vars, TypeInv, TypeOK, ProcTypes
  <2>23. ASSUME NEW p \in Procs, ProcStep(p) PROVE ProcTypes' /\ TypeOK'
    BY <2>3, <2>4, <2>5, <2>6, <2>7, <2>8, <2>9, <2>10, <2>12, <2>13, <2>23 DEF ProcStep
  <2>24. ASSUME OwnerStep PROVE ProcTypes' /\ TypeOK'
    BY <2>14, <2>15, <2>16, <2>17, <2>18, <2>24 DEF OwnerStep, RemoveRule, ApplyScheduleOwner
  <2> QED
    BY <2>2, <2>11, <2>19, <2>20, <2>21, <2>22, <2>23, <2>24 DEF Next
<1> QED
  BY <1>1, <1>2, PTL DEF Spec

\* Every variable keeps its type: no step writes a row, a rule or a receipt of
\* another shape, whatever fails, crashes or is edited in between.
THEOREM TypeCorrect == Spec => []TypeOK
<1>1. TypeInv => TypeOK
  BY DEF TypeInv
<1> QED
  BY <1>1, TypeInvariant, PTL

-----------------------------------------------------------------------------
(***************************************************************************)
(* What a step may do to one rule.                                         *)
(***************************************************************************)
Created(r) ==
  \E policy \in Policies, enabled \in BOOLEAN :
    r \notin deleted /\ edits' = edits + 1 /\ rules'[r] = NewRule(policy, enabled)

Edited(r) ==
  \E policy \in Policies, enable \in {"on", "off", "keep"} :
    /\ rules[r] # NoRule /\ edits' = edits + 1
    /\ rules'[r] = UpdatedRule(rules[r], policy, enable)

Dropped(r) == rules[r] # NoRule /\ ~rules[r].enabled /\ rules'[r] = NoRule /\ r \in deleted'

Advanced(r) ==
  /\ Advance("tick") /\ proc["tick"].rule = r
  /\ rules[r] # NoRule /\ rules[r] = proc["tick"].snap
  /\ rules'[r] = AdvancedRule(rules[r], TheFire("tick"), proc["tick"].at,
                              proc["tick"].outcome, SkipsFire("tick"))

LEMMA RuleSteps ==
  ASSUME TypeInv, [Next]_vars, NEW r \in Rules
  PROVE  rules'[r] = rules[r] \/ Created(r) \/ Edited(r) \/ Dropped(r) \/ Advanced(r)
<1>1. rules \in [Rules -> Rule \cup {NoRule}]
  BY DEF TypeInv, TypeOK
<1>2. UNCHANGED rules => rules'[r] = rules[r]
  OBVIOUS
<1>3. ASSUME NEW s \in Rules, NEW policy \in Policies, NEW enabled \in BOOLEAN,
             CreateRule(s, policy, enabled)
      PROVE  rules'[r] = rules[r] \/ Created(r)
  BY <1>1, <1>3 DEF CreateRule, Edit, Created, NewRule
<1>4. ASSUME NEW s \in Rules, NEW policy \in Policies, NEW enable \in {"on", "off", "keep"},
             UpdateRule(s, policy, enable)
      PROVE  rules'[r] = rules[r] \/ Edited(r)
  BY <1>1, <1>4 DEF UpdateRule, Edit, Edited
<1>5. ASSUME NEW s \in Rules, DropRule(s)
      PROVE  rules'[r] = rules[r] \/ Dropped(r)
  BY <1>1, <1>5 DEF DropRule, Dropped
<1>6. ASSUME NEW p \in Procs, Advance(p)
      PROVE  rules'[r] = rules[r] \/ Advanced(r)
  <2>1. p = "tick"
    BY <1>6 DEF TypeInv, Shaped, Advance, Procs
  <2>2. CASE UNCHANGED rules
    BY <2>2
  <2>3. CASE rules[proc[p].rule] # NoRule
    <3> DEFINE advanced == AdvancedRule(proc[p].snap, TheFire(p), proc[p].at,
                                        proc[p].outcome, SkipsFire(p))
               s == proc[p].rule
    <3>1. rules' = [rules EXCEPT ![s] = SavedRule(rules[s], proc[p].snap, advanced)]
      BY <1>6, <2>3 DEF Advance
    <3>2. CASE rules[s] # proc[p].snap \/ s # r
      BY <1>1, <3>1, <3>2 DEF SavedRule
    <3>3. CASE rules[s] = proc[p].snap /\ s = r
      <4>1. rules'[r] = advanced
        BY <1>1, <3>1, <3>3 DEF SavedRule
      <4> QED
        BY <1>6, <2>1, <2>3, <3>3, <4>1 DEF Advanced
    <3> QED
      BY <3>2, <3>3
  <2> QED
    BY <1>6, <2>2, <2>3 DEF Advance
<1>7. ASSUME NEW p \in Procs, ProcStep(p)
      PROVE  rules'[r] = rules[r] \/ Advanced(r)
  BY <1>2, <1>6, <1>7 DEF ProcStep, ReadRule, ReadLatestRule, Claim, ReadActiveRuns, CancelVictim,
     AdmitMissionAndRun, UpdateReceipt, LaunchRun, LaunchReturns
<1>8. ASSUME OwnerStep
      PROVE  rules'[r] = rules[r] \/ Created(r) \/ Edited(r) \/ Dropped(r)
  BY <1>2, <1>3, <1>4, <1>5, <1>8 DEF OwnerStep, RemoveRule, ApplyScheduleOwner, ManualTestFire,
     StopRun
<1> QED
  BY <1>2, <1>7, <1>8 DEF Next, TickStart, WriteFails, ClockTick, Crash, Restart, vars

\* A rule that some step writes, as the lemmas above know it.
LEMMA WrittenRule ==
  ASSUME TypeInv, NEW r \in Rules, Created(r) \/ Edited(r) \/ Advanced(r)
  PROVE  /\ rules'[r] \in Rule /\ NoFireWhenDisabled(rules'[r])
         /\ rules[r] = NoRule \/ RetryAllowed(rules[r]) => RetryAllowed(rules'[r])
         /\ Advanced(r) /\ rules'[r].enabled => rules[r].enabled
<1>1. now \in Nat /\ edits \in Nat /\ rules \in [Rules -> Rule \cup {NoRule}]
  BY DEF TypeInv, TypeOK, Time
<1>2. CASE Created(r)
  <2>1. PICK policy \in Policies, enabled \in BOOLEAN :
          edits' = edits + 1 /\ rules'[r] = NewRule(policy, enabled)
    BY <1>2 DEF Created
  <2>2. RetryAllowed(NewRule(policy, enabled))
    BY <1>1, NewRuleIsFresh DEF RetryAllowed
  <2>3. ~Advanced(r) \/ (rules'[r].enabled => rules[r].enabled)
    <3>1. Advanced(r) => edits' = edits
      BY DEF Advanced, Advance
    <3> QED
      BY <1>1, <2>1, <3>1
  <2> QED
    BY <1>1, <2>1, <2>2, <2>3, NewRuleIsFresh
<1>3. CASE Edited(r)
  <2>1. PICK policy \in Policies, enable \in {"on", "off", "keep"} :
          /\ rules[r] # NoRule /\ edits' = edits + 1
          /\ rules'[r] = UpdatedRule(rules[r], policy, enable)
    BY <1>3 DEF Edited
  <2>2. rules[r] \in Rule
    BY <1>1, <2>1
  <2>3. ~Advanced(r)
    BY <1>1, <2>1 DEF Advanced, Advance
  <2> QED
    BY <1>1, <2>1, <2>2, <2>3, UpdatedRuleKeeps
<1>4. CASE Advanced(r)
  <2>1. proc["tick"].pc = "advance" /\ "tick" \in Procs
    BY <1>4 DEF Advanced, Advance, Procs
  <2>2. /\ TheFire("tick") \in Fire /\ proc["tick"].at \in Nat /\ rules[r] \in Rule
        /\ proc["tick"].outcome \in Outcome /\ SkipsFire("tick") \in BOOLEAN
    BY <1>4, <2>1, AdvanceRules DEF Advanced
  <2> QED
    BY <1>4, <2>2, AdvancedRuleKeeps DEF Advanced
<1> QED
  BY <1>2, <1>3, <1>4

RulesInv ==
  \A r \in Rules :
    rules[r] # NoRule => NoFireWhenDisabled(rules[r]) /\ RetryAllowed(rules[r])

LEMMA RulesInvariant == Spec => []RulesInv
<1>1. Init => RulesInv
  BY DEF Init, RulesInv
<1>2. TypeInv /\ RulesInv /\ [Next]_vars => RulesInv'
  <2> SUFFICES ASSUME TypeInv, RulesInv, [Next]_vars, NEW r \in Rules, rules'[r] # NoRule
               PROVE  NoFireWhenDisabled(rules'[r]) /\ RetryAllowed(rules'[r])
    BY DEF RulesInv
  <2>1. CASE rules'[r] = rules[r]
    BY <2>1 DEF RulesInv
  <2>2. CASE Created(r) \/ Edited(r) \/ Advanced(r)
    BY <2>2, WrittenRule DEF RulesInv
  <2> QED
    BY <2>1, <2>2, RuleSteps DEF Dropped
<1> QED
  BY <1>1, <1>2, TypeInvariant, PTL DEF Spec

\* A disabled rule has no next fire, whoever wrote it last: the owner, the pause
\* after failures, or an advance that was under way when the owner disabled it.
THEOREM DisabledIsAtRest == Spec => []DisabledHasNoNextFire
<1>1. RulesInv => DisabledHasNoNextFire
  BY DEF RulesInv, DisabledHasNoNextFire, NoFireWhenDisabled
<1> QED
  BY <1>1, RulesInvariant, PTL

\* A pending retry is one its rule's policy allows: a failure handled under the
\* policy a trigger had read is not written over an edited one.
THEOREM RetryIsAllowed == Spec => []RetryWithinPolicy
<1>1. RulesInv => RetryWithinPolicy
  BY DEF RulesInv, RetryWithinPolicy, RetryAllowed
<1> QED
  BY <1>1, RulesInvariant, PTL

\* No trigger in flight enables a rule the owner disabled, or brings back one the
\* owner removed.
THEOREM OwnerHasTheLastWord == Spec => OwnerPrevails
<1> DEFINE Step ==
      \A r \in Rules :
        /\ (rules[r] # NoRule /\ ~rules[r].enabled /\ rules'[r] # NoRule /\ rules'[r].enabled
            => edits' = edits + 1)
        /\ (rules[r] = NoRule /\ rules'[r] # NoRule
            => r \notin deleted /\ edits' = edits + 1)
<1>1. TypeInv /\ [Next]_vars => [Step]_vars
  <2> SUFFICES ASSUME TypeInv, [Next]_vars PROVE Step
    OBVIOUS
  <2> SUFFICES ASSUME NEW r \in Rules
               PROVE  /\ (rules[r] # NoRule /\ ~rules[r].enabled /\ rules'[r] # NoRule
                          /\ rules'[r].enabled => edits' = edits + 1)
                      /\ (rules[r] = NoRule /\ rules'[r] # NoRule
                          => r \notin deleted /\ edits' = edits + 1)
    OBVIOUS
  <2>1. CASE rules'[r] = rules[r]
    BY <2>1
  <2>2. CASE Created(r)
    BY <2>2 DEF Created
  <2>3. CASE Edited(r)
    BY <2>3 DEF Edited
  <2>4. CASE Dropped(r)
    BY <2>4 DEF Dropped
  <2>5. CASE Advanced(r)
    <3>1. rules'[r].enabled => rules[r].enabled
      BY <2>5, WrittenRule
    <3>2. rules[r] # NoRule
      BY <2>5 DEF Advanced
    <3> QED
      BY <3>1, <3>2
  <2> QED
    BY <2>1, <2>2, <2>3, <2>4, <2>5, RuleSteps
<1> QED
  BY <1>1, TypeInvariant, PTL DEF Spec, OwnerPrevails
=============================================================================
