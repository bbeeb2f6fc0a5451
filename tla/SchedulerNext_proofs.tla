----------------------- MODULE SchedulerNext_proofs -----------------------
(***************************************************************************)
(* The next fire of a rule of Scheduler: a settled fire never sends its    *)
(* rule back to an occurrence that was claimed before.                     *)
(***************************************************************************)
EXTENDS SchedulerRetry_proofs

-----------------------------------------------------------------------------
(***************************************************************************)
(* Occurrences of a daily rule.                                            *)
(***************************************************************************)
Regular(t) == \E s \in Nat : t = NextOccurrence(s)

LEMMA Multiplied ==
  ASSUME NEW m \in Nat, NEW n \in Nat
  PROVE  /\ m * Period \in Nat
         /\ m <= n => m * Period <= n * Period
         /\ m * Period < n * Period => m < n
         /\ (m * Period) \div Period = m
<1>1. Period \in Nat /\ Period > 0
  BY SchedulerAssumption
<1>2. m * Period \in Nat /\ n * Period \in Nat
  BY <1>1
<1>3. ASSUME NEW a \in Nat, NEW b \in Nat, a <= b PROVE a * Period <= b * Period
  <2>1. PICK d \in Nat : b = a + d
    BY <1>3
  <2>2. b * Period = a * Period + d * Period /\ d * Period \in Nat /\ a * Period \in Nat
    BY <1>1, <2>1
  <2> QED
    BY <2>2
<1>4. m * Period < n * Period => m < n
  BY <1>2, <1>3
<1>5. (m * Period) \div Period = m
  <2> DEFINE x == m * Period
             q == x \div Period
  <2>1. q \in Nat /\ q * Period <= x /\ x < (q + 1) * Period
    BY <1>1, <1>2
  <2> HIDE DEF q
  <2>2. ~(q + 1 <= m) /\ ~(m + 1 <= q)
    <3>1. q + 1 <= m => (q + 1) * Period <= x
      BY <1>3, <2>1
    <3>2. (q + 1) * Period \in Nat
      BY <1>1, <2>1
    <3>3. m + 1 <= q => (m + 1) * Period <= q * Period
      BY <1>3, <2>1
    <3>4. (m + 1) * Period > x /\ q * Period \in Nat /\ (m + 1) * Period \in Nat
      BY <1>1, <1>2, <2>1
    <3> QED
      BY <1>2, <2>1, <3>1, <3>2, <3>3, <3>4
  <2> QED
    BY <2>1, <2>2 DEF q
<1> QED
  BY <1>2, <1>3, <1>4, <1>5

\* No occurrence lies between a time and the occurrence after it.
LEMMA NoneBetween ==
  ASSUME NEW t \in Nat, NEW u \in Nat, Regular(u), t < u
  PROVE  NextOccurrence(t) <= u
<1>1. Period \in Nat \ {0}
  BY SchedulerAssumption
<1>2. PICK s \in Nat : u = NextOccurrence(s)
  BY DEF Regular
<1>3. PICK m \in Nat : m = s \div Period + 1
  BY <1>1
<1>4. PICK q \in Nat : q = t \div Period /\ q * Period <= t
  BY <1>1
<1>5. u = m * Period /\ NextOccurrence(t) = (q + 1) * Period
  BY <1>2, <1>3, <1>4 DEF NextOccurrence
<1>6. q * Period \in Nat
  BY Multiplied
<1>7. q < m
  BY <1>4, <1>5, <1>6, Multiplied
<1> QED
  BY <1>5, <1>7, Multiplied

LEMMA RegularShift ==
  ASSUME NEW t \in Nat, NEW n \in Nat, Regular(t)
  PROVE  /\ t + n * Period \in Nat /\ Regular(t + n * Period)
         /\ NextOccurrence(t + n * Period) = t + (n + 1) * Period
<1>1. Period \in Nat \ {0}
  BY SchedulerAssumption
<1>2. PICK s \in Nat : t = NextOccurrence(s)
  BY DEF Regular
<1>3. PICK m \in Nat : m = s \div Period
  BY <1>1
<1>4. t = (m + 1) * Period
  BY <1>2, <1>3 DEF NextOccurrence
<1>5. t + n * Period = (m + 1 + n) * Period /\ t + (n + 1) * Period = (m + 1 + n + 1) * Period
  BY <1>1, <1>4
<1>6. ((m + 1 + n) * Period) \div Period = m + 1 + n /\ (m + 1 + n) * Period \in Nat
  BY Multiplied
<1>7. ((m + n) * Period) \div Period = m + n /\ (m + n) * Period \in Nat
  BY Multiplied
<1>8. NextOccurrence((m + n) * Period) = t + n * Period
  BY <1>5, <1>7 DEF NextOccurrence
<1>9. NextOccurrence((m + 1 + n) * Period) = t + (n + 1) * Period
  BY <1>5, <1>6 DEF NextOccurrence
<1> QED
  BY <1>5, <1>6, <1>7, <1>8, <1>9 DEF Regular

LEMMA AfterIsRegular ==
  ASSUME NEW t \in Nat
  PROVE  /\ NextOccurrence(t) \in Nat /\ NextOccurrence(t) > t /\ Regular(NextOccurrence(t))
         /\ NextOccurrence(t) # NoFire
BY NextOccurrenceIsLater DEF Regular, NoFire

\* A batch starts at the rule's next fire and goes on from occurrence to
\* occurrence; only a startup tick collects more than one.
LEMMA CollectedBatch ==
  ASSUME NEW rule \in Rule, NEW at \in Nat, NEW startup \in BOOLEAN, NEW fires,
         fires = CollectDueFires(rule, at, startup), fires # <<>>, rule.retry = NoRetry,
         rule.policy.kind = "daily" => Regular(rule.next)
  PROVE  /\ \A n \in 1..Len(fires) :
              fires[n].time = rule.next \/ (fires[n].time > rule.next /\ Regular(fires[n].time))
         /\ fires[1].time = rule.next
         /\ \A n \in 1..Len(fires) : n + 1 \in 1..Len(fires) =>
              startup /\ fires[n + 1].time = NextOccurrence(fires[n].time)
<1> DEFINE next == rule.next
           count == Least((at - next) \div Period + 1, MaxFireAll)
           all == [n \in 1..count |-> Occurrence(next + (n - 1) * Period)]
<1>1. next \in Nat /\ Period \in Nat \ {0} /\ MaxFireAll \in Nat \ {0}
  BY FieldsOfRule, SchedulerAssumption
<1>2. CASE fires = <<Occurrence(next)>>
  BY <1>1, <1>2 DEF Occurrence
<1>3. CASE fires = all /\ startup /\ Regular(next) /\ next <= at
  <2>1. PICK x \in Nat : x = at - next
    BY <1>1, <1>3
  <2>2. x \div Period \in Nat
    BY <1>1
  <2>3. count \in Nat /\ count >= 1
    BY <1>1, <2>1, <2>2 DEF Least
  <2> HIDE DEF count
  <2>4. Len(fires) = count /\ \A n \in 1..count : fires[n].time = next + (n - 1) * Period
    <3>1. Len(all) = count
      BY <2>3
    <3>2. ASSUME NEW n \in 1..count PROVE all[n].time = next + (n - 1) * Period
      BY DEF Occurrence
    <3> QED
      BY <1>3, <3>1, <3>2
  <2>5. ASSUME NEW n \in 1..count
        PROVE  /\ fires[n].time \in Nat /\ Regular(fires[n].time)
               /\ fires[n].time = next \/ fires[n].time > next
               /\ NextOccurrence(fires[n].time) = next + n * Period
    <3>1. PICK i \in Nat : i = n - 1
      BY <2>3
    <3>2. /\ next + i * Period \in Nat /\ Regular(next + i * Period)
          /\ NextOccurrence(next + i * Period) = next + (i + 1) * Period
      BY <1>1, <1>3, RegularShift
    <3>3. i * Period \in Nat
      BY <1>1
    <3> QED
      BY <1>1, <2>3, <2>4, <3>1, <3>2, <3>3
  <2>6. fires[1].time = next
    <3>1. fires[1].time = next + 0 * Period
      BY <2>3, <2>4
    <3> QED
      BY <1>1, <3>1
  <2>7. ASSUME NEW n \in 1..count, n + 1 \in 1..count
        PROVE  fires[n + 1].time = NextOccurrence(fires[n].time)
    <3>1. fires[n + 1].time = next + (n + 1 - 1) * Period /\ n + 1 - 1 = n
      BY <2>3, <2>4, <2>7
    <3> QED
      BY <2>5, <3>1
  <2> QED
    BY <1>3, <2>4, <2>5, <2>6, <2>7
<1>4. CASE fires = <<>>
  BY <1>4
<1>5. fires = <<>> \/ fires = <<Occurrence(next)>>
      \/ (fires = all /\ startup /\ rule.policy.kind = "daily" /\ ~(next > at))
  BY Zenon DEF CollectDueFires
<1>6. ~(next > at) => next <= at
  BY <1>1
<1> QED
  BY <1>2, <1>3, <1>4, <1>5, <1>6

-----------------------------------------------------------------------------
(***************************************************************************)
(* The invariant.                                                          *)
(***************************************************************************)
FireKey(r, rev, t) == [rule |-> r, rev |-> rev, kind |-> "fire", time |-> t, attempt |-> 0]

Fired(r, rev, t) == FireKey(r, rev, t) \in DOMAIN receipts

FiresFor(r) == {k \in DOMAIN receipts : k.kind = "fire" /\ k.rule = r}

\* The occurrence after t is claimed only where t is.
Linked(r, t) ==
  \A k \in FiresFor(r) : k.time = NextOccurrence(t) => Fired(r, k.rev, t)

\* A time from which the rule can go on: what is claimed behind it was missed
\* before this start of the process, and has no gaps.
Steady(r, t) ==
  /\ \A k \in FiresFor(r) : k.time > t => k.time <= bootAt
  /\ \A u \in Nat : u > t /\ Regular(u) => Linked(r, u)

\* The occurrences between t and h were missed, and are claimed under the rule's
\* present revision.
Caught(r, t, h) ==
  /\ h <= bootAt
  /\ \A u \in Nat : Regular(u) /\ t < u /\ u < h => Fired(r, rules[r].rev, u)

NextIsSteady(rule, r) ==
  rule.next # NoFire =>
    /\ Steady(r, rule.next) /\ Linked(r, rule.next)
    /\ rule.policy.kind = "daily" => Regular(rule.next)

\* Nothing is claimed ahead of its time, and a rule's next fire and its pending
\* retry are times it can go on from.
PositionsInv ==
  /\ \A k \in DOMAIN receipts : k.kind = "fire" => k.time <= now
  /\ \A r \in Rules :
       rules[r] # NoRule =>
         /\ NextIsSteady(rules[r], r)
         /\ Pending(r) => Steady(r, rules[r].retry.orig)

\* So is what the tick holds.
FireIsSteady(f) ==
  /\ Steady(Tick.rule, f.time)
  /\ f.kind = "fire" => Linked(Tick.rule, f.time) /\ f.time <= Tick.at

BatchInv ==
  Tick.pc \in OnRule =>
    /\ \A n \in 1..Len(Tick.fires) : FireIsSteady(Tick.fires[n])
    /\ \A n \in 1..Len(Tick.fires) : n + 1 \in 1..Len(Tick.fires) =>
         Tick.startup /\ Tick.fires[n + 1].time = NextOccurrence(Tick.fires[n].time)

\* The rule's next fire is the one at hand, or is set anew by the owner, or the
\* tick has come past it; so it has past a pending retry.
NextAtHead(rule, r, h) ==
  \/ rule.next = NoFire \/ rule.next > Tick.at \/ rule.next = h
  \/ rule.next < h /\ Caught(r, rule.next, h) /\ Fired(r, rule.rev, rule.next)

HeadInv ==
  (/\ Tick.pc \in OnRule /\ Tick.fires # <<>> /\ TheFire("tick").kind = "fire"
   /\ rules[Tick.rule] # NoRule)
  => /\ NextAtHead(rules[Tick.rule], Tick.rule, TheFire("tick").time)
     /\ Pending(Tick.rule) =>
          Caught(Tick.rule, rules[Tick.rule].retry.orig, TheFire("tick").time)

\* The owner's edits of a rule under the tick.
SnapInv ==
  (/\ Tick.pc \in AtFire
   /\ rules[Tick.rule] # NoRule /\ rules[Tick.rule] # Tick.snap)
  => /\ rules[Tick.rule].next = NoFire \/ rules[Tick.rule].next > Tick.at
     /\ Pending(Tick.rule) => rules[Tick.rule].rev = Tick.snap.rev

\* Behind the fire at hand nothing is claimed under the revision read.
HoldInv ==
  Tick.pc \in Holding /\ TheFire("tick").kind = "fire" =>
    ~Fired(Tick.rule, Tick.snap.rev, NextOccurrence(TheFire("tick").time))

StartInv == bootAt <= now /\ (Tick.startup => Tick.at = bootAt)

NextInv == PositionsInv /\ BatchInv /\ HeadInv /\ SnapInv /\ HoldInv /\ StartInv

-----------------------------------------------------------------------------
(***************************************************************************)
(* What a step does to the claims a position rests on.                     *)
(***************************************************************************)
LEMMA BootAdvances ==
  ASSUME TypeInv, StartInv, [Next]_vars
  PROVE  /\ bootAt \in Nat /\ bootAt' \in Nat /\ bootAt <= bootAt' /\ bootAt' <= now'
         /\ bootAt' = bootAt \/ bootAt' = now
         /\ Restart => bootAt' = now
         /\ ~Restart => bootAt' = bootAt
<1>1. bootAt \in Nat /\ now \in Nat
  BY DEF TypeInv, TypeOK, Time
<1>2. bootAt' = bootAt \/ Restart
  BY DEF Next, TickStart, ProcStep, ReadRule, ReadLatestRule, Claim, ReadActiveRuns, CancelVictim,
     AdmitMissionAndRun, UpdateReceipt, Advance, LaunchRun, LaunchReturns, OwnerStep, CreateRule,
     UpdateRule, RemoveRule, ApplyScheduleOwner, DropRule, ManualTestFire, StopRun, WriteFails,
     ClockTick, Crash, vars, clockVars
<1>3. Restart => bootAt' = now
  BY DEF Restart
<1>4. bootAt <= now
  BY DEF StartInv
<1> QED
  BY <1>1, <1>2, <1>3, <1>4, NowNotBefore

LEMMA FiredStays ==
  ASSUME TypeInv, [Next]_vars, NEW r, NEW rev, NEW t, Fired(r, rev, t)
  PROVE  Fired(r, rev, t)'
BY ReceiptsKept DEF Fired, FireKey

\* The tick claims a fire of rule r.
ClaimsFire(r) == Claims("tick") /\ Tick.rule = r /\ TheFire("tick").kind = "fire"

LEMMA NewFireKeys ==
  ASSUME TypeInv, [Next]_vars, NEW r, NEW k \in FiresFor(r)', k \notin FiresFor(r)
  PROVE  ClaimsFire(r) /\ k.rev = Tick.snap.rev /\ k.time = TheFire("tick").time
<1>1. k \in DOMAIN receipts' /\ k.kind = "fire" /\ k.rule = r /\ k \notin DOMAIN receipts
  BY DEF FiresFor
<1>2. Claims("tick") /\ k = TheKey("tick")
  BY <1>1, NewScheduledKeys
<1> QED
  BY <1>1, <1>2 DEF ClaimsFire, TheKey, Tick

LEMMA LinkedKept ==
  ASSUME TypeInv, [Next]_vars, NEW r, NEW t, Linked(r, t),
         ClaimsFire(r) /\ TheFire("tick").time = NextOccurrence(t) => Fired(r, Tick.snap.rev, t)
  PROVE  Linked(r, t)'
<1> SUFFICES ASSUME NEW k \in FiresFor(r)', k.time = NextOccurrence(t)
             PROVE  Fired(r, k.rev, t)'
  BY DEF Linked, NextOccurrence
<1>1. CASE k \in FiresFor(r)
  BY <1>1, FiredStays DEF Linked
<1>2. CASE k \notin FiresFor(r)
  BY <1>2, NewFireKeys, FiredStays
<1> QED
  BY <1>1, <1>2

LEMMA SteadyKept ==
  ASSUME TypeInv, StartInv, [Next]_vars, NEW r, NEW t \in Nat, Steady(r, t),
         ClaimsFire(r) /\ t < TheFire("tick").time =>
           /\ TheFire("tick").time <= bootAt
           /\ \A u \in Nat :
                Regular(u) /\ t < u /\ u < TheFire("tick").time => Fired(r, Tick.snap.rev, u)
  PROVE  Steady(r, t)'
<1> DEFINE h == TheFire("tick").time
<1>1. ASSUME ClaimsFire(r) PROVE h \in Nat
  <2>1. Tick.pc \in AtFire
    BY <1>1 DEF ClaimsFire, Claims, Tick, AtFire
  <2> QED
    BY <2>1, TheFireType DEF Tick, Procs, Fire
<1> HIDE DEF h
<1>2. ASSUME NEW k \in FiresFor(r)', k.time > t PROVE k.time <= bootAt'
  <2>1. k.time \in Nat \/ k \notin FiresFor(r)
    BY DEF FiresFor, TypeInv, TypeOK, Key
  <2>2. CASE k \in FiresFor(r)
    BY <1>2, <2>1, <2>2, BootAdvances DEF Steady
  <2>3. CASE k \notin FiresFor(r)
    <3>1. ClaimsFire(r) /\ k.time = h
      BY <2>3, NewFireKeys DEF h
    <3>2. h \in Nat /\ t < h
      BY <1>1, <1>2, <3>1
    <3> QED
      BY <3>1, <3>2, BootAdvances DEF h
  <2> QED
    BY <2>2, <2>3
<1>3. ASSUME NEW u \in Nat, u > t, Regular(u) PROVE Linked(r, u)'
  <2>1. ClaimsFire(r) /\ h = NextOccurrence(u) => Fired(r, Tick.snap.rev, u)
    <3> SUFFICES ASSUME ClaimsFire(r), h = NextOccurrence(u) PROVE Fired(r, Tick.snap.rev, u)
      OBVIOUS
    <3>1. u < h /\ t < h /\ t < u
      BY <1>1, <1>3, AfterIsRegular
    <3> QED
      BY <1>3, <3>1 DEF h
  <2>2. Linked(r, u)
    BY <1>3 DEF Steady
  <2> QED
    BY <2>1, <2>2, LinkedKept DEF h
<1> QED
  BY <1>2, <1>3 DEF Steady, Regular, NextOccurrence

LEMMA SteadyFrom ==
  ASSUME TypeInv, NEW r, NEW t \in Nat, NEW u \in Nat, t <= u, Steady(r, t)
  PROVE  /\ Steady(r, u)
         /\ t < u /\ Regular(u) => Linked(r, u)
<1>1. \A k \in FiresFor(r) : k.time \in Nat
  BY DEF FiresFor, TypeInv, TypeOK, Key
<1>2. \A v \in Nat : v > u => v > t
  OBVIOUS
<1>3. \A k \in FiresFor(r) : k.time > u => k.time <= bootAt
  BY <1>1, <1>2 DEF Steady
<1> QED
  BY <1>2, <1>3 DEF Steady

\* Behind a time that has not come nothing is claimed.
LEMMA AheadIsSteady ==
  ASSUME NEW r, NEW t \in Nat, NEW m \in Nat, t > m,
         \A k \in FiresFor(r)' : k.time \in Nat /\ k.time <= m
  PROVE  Steady(r, t)' /\ Linked(r, t)'
<1>1. ASSUME NEW u \in Nat, u >= t PROVE Linked(r, u)'
  <2>1. NextOccurrence(u) \in Nat /\ NextOccurrence(u) > m
    BY <1>1, AfterIsRegular
  <2>2. \A k \in FiresFor(r)' : k.time # NextOccurrence(u)
    BY <2>1
  <2> QED
    BY <2>2 DEF Linked, NextOccurrence
<1>2. \A k \in FiresFor(r)' : ~(k.time > t)
  OBVIOUS
<1> QED
  BY <1>1, <1>2 DEF Steady, Regular, NextOccurrence

-----------------------------------------------------------------------------
(***************************************************************************)
(* Every step keeps the invariant, conjunct by conjunct.                   *)
(***************************************************************************)
LEMMA HeadOfTick ==
  ASSUME TypeInv, RetryInv, NextInv, Tick.pc \in OnRule, Tick.fires # <<>>
  PROVE  /\ Tick.rule \in Rules /\ TheFire("tick") \in Fire /\ TheFire("tick").time \in Nat
         /\ TheFire("tick").kind \in {"fire", "retry"}
         /\ Tick.at \in Nat /\ Tick.at <= now /\ now \in Nat
         /\ FireIsSteady(TheFire("tick"))
         /\ TheFire("tick").kind = "fire" =>
              /\ TheFire("tick").time <= Tick.at
              /\ Tick.pc \in AtFire =>
                   TheKey("tick") = FireKey(Tick.rule, Tick.snap.rev, TheFire("tick").time)
<1>1. /\ Tick.rule \in Rules /\ TheFire("tick") = Tick.fires[1] /\ 1 \in 1..Len(Tick.fires)
      /\ TheFire("tick") \in Fire /\ TheFire("tick").kind \in {"fire", "retry"}
      /\ Ahead(TheFire("tick"))
  BY FiresOfTick DEF RetryInv
<1>2. FireIsSteady(TheFire("tick"))
  BY <1>1 DEF NextInv, BatchInv
<1>3. Tick.at \in Nat /\ now \in Nat /\ Tick.at <= now
  BY FieldsOfProc DEF TypeInv, TypeOK, Time, Tick, Procs, RetryInv, TickInv
<1>4. TheFire("tick").kind = "fire" =>
        TheKey("tick") = FireKey(Tick.rule, Tick.snap.rev, TheFire("tick").time)
  BY <1>1 DEF Ahead, TheKey, FireKey, Tick
<1> QED
  BY <1>1, <1>2, <1>3, <1>4 DEF FireIsSteady, Fire

LEMMA AtTheClaim ==
  ASSUME TypeInv, LedgerInv, RetryInv, NextInv, NEW r \in Rules, ClaimsFire(r)
  PROVE  LET h == TheFire("tick").time
             Gapless(t) == /\ h <= bootAt
                           /\ \A u \in Nat :
                                Regular(u) /\ t < u /\ u < h => Fired(r, Tick.snap.rev, u)
         IN  /\ rules[r] # NoRule /\ rules[r] \in Rule
             /\ rules[r].next # NoFire /\ rules[r].next < h =>
                  Gapless(rules[r].next) /\ Fired(r, Tick.snap.rev, rules[r].next)
             /\ Pending(r) => Gapless(rules[r].retry.orig)
<1> DEFINE h == TheFire("tick").time
           next == rules[r].next
<1>1. /\ Tick.rule = r /\ Tick.pc = "claim" /\ Tick.pc \in AtFire /\ Tick.pc \in OnRule
      /\ TheFire("tick").kind = "fire" /\ r \notin deleted
  BY DEF ClaimsFire, Claims, Tick, AtFire, OnRule
<1>2. Tick.fires # <<>>
  BY <1>1 DEF TypeInv, Shaped, Tick, Procs
<1>3. rules[r] # NoRule
  BY <1>1 DEF LedgerInv, Owning, Tick, Procs
<1>4. rules[r] \in Rule /\ next \in Nat
  BY <1>3, FieldsOfRule DEF TypeInv, TypeOK
<1>5. h \in Nat /\ h <= Tick.at /\ Tick.at \in Nat
  BY <1>1, <1>2, HeadOfTick
<1>6. /\ NextAtHead(rules[r], r, h)
      /\ Pending(r) => Caught(r, rules[r].retry.orig, h)
  BY <1>1, <1>2, <1>3 DEF NextInv, HeadInv
<1>7. rules[r] # Tick.snap =>
        /\ next = NoFire \/ next > Tick.at
        /\ Pending(r) => rules[r].rev = Tick.snap.rev
  BY <1>1, <1>3 DEF NextInv, SnapInv
<1>8. ASSUME next # NoFire, next < h
      PROVE  /\ rules[r].rev = Tick.snap.rev
             /\ Caught(r, next, h) /\ Fired(r, rules[r].rev, next)
  <2>1. ~(next > Tick.at) /\ next # h
    BY <1>4, <1>5, <1>8
  <2> QED
    BY <1>6, <1>7, <1>8, <2>1 DEF NextAtHead
<1>9. Pending(r) => rules[r].rev = Tick.snap.rev /\ Caught(r, rules[r].retry.orig, h)
  BY <1>6, <1>7
<1> QED
  BY <1>3, <1>4, <1>8, <1>9 DEF Caught

LEMMA FireKeysPast ==
  ASSUME TypeInv, RetryInv, NextInv, [Next]_vars, NEW r, NEW k \in FiresFor(r)'
  PROVE  k.time \in Nat /\ k.time <= now
<1>1. CASE k \in FiresFor(r)
  BY <1>1 DEF FiresFor, TypeInv, TypeOK, Key, NextInv, PositionsInv
<1>2. CASE k \notin FiresFor(r)
  <2>1. Claims("tick") /\ TheFire("tick").kind = "fire" /\ k.time = TheFire("tick").time
    BY <1>2, NewFireKeys DEF ClaimsFire
  <2>2. Tick.pc \in OnRule /\ Tick.fires # <<>>
    BY <2>1 DEF Claims, OnRule, AtFire, Tick, TypeInv, Shaped, Procs
  <2> QED
    BY <2>1, <2>2, HeadOfTick
<1> QED
  BY <1>1, <1>2

LEMMA NextIsSteadyKept ==
  ASSUME TypeInv, LedgerInv, RetryInv, NextInv, [Next]_vars, NEW r \in Rules,
         rules'[r] # NoRule
  PROVE  NextIsSteady(rules[r], r)'
<1> SUFFICES ASSUME NEW next, next = rules'[r].next, next # NoFire
             PROVE  /\ Steady(r, next)' /\ Linked(r, next)'
                    /\ rules'[r].policy.kind = "daily" => Regular(next)
  BY DEF NextIsSteady, Steady, Linked, Regular, NextOccurrence
<1>1. /\ rules \in [Rules -> Rule \cup {NoRule}] /\ now \in Nat /\ edits \in Nat
      /\ next \in Nat /\ StartInv
  BY RevisionSteps, FieldsOfRule DEF TypeInv, TypeOK, Time, NextInv
<1>2. CASE rules'[r] = rules[r]
  <2>1. /\ Steady(r, next) /\ Linked(r, next)
        /\ rules[r].policy.kind = "daily" => Regular(next)
    BY <1>2 DEF NextInv, PositionsInv, NextIsSteady
  <2>2. Steady(r, next)'
    BY <1>1, <1>2, <2>1, SteadyKept, AtTheClaim
  <2>3. ClaimsFire(r) /\ TheFire("tick").time = NextOccurrence(next) => Fired(r, Tick.snap.rev, next)
    BY <1>1, <1>2, AtTheClaim, AfterIsRegular
  <2>4. Linked(r, next)'
    BY <2>1, <2>3, LinkedKept
  <2> QED
    BY <1>2, <2>1, <2>2, <2>4
<1>3. ASSUME next > now PROVE Steady(r, next)' /\ Linked(r, next)'
  BY <1>1, <1>3, FireKeysPast, AheadIsSteady
<1>4. CASE Created(r)
  <2>1. PICK policy \in Policies, enabled \in BOOLEAN : rules'[r] = NewRule(policy, enabled)
    BY <1>4 DEF Created
  <2>2. next > now
    BY <1>1, <2>1, NewRuleIsFresh
  <2>3. policy.kind = "daily" => Regular(next)
    BY <1>1, <2>1, AfterIsRegular DEF NewRule, ComputeNextFireAt
  <2> QED
    BY <1>3, <2>1, <2>2, <2>3 DEF NewRule
<1>5. CASE Edited(r)
  <2>1. PICK policy \in Policies, enable \in {"on", "off", "keep"} :
          rules[r] # NoRule /\ rules'[r] = UpdatedRule(rules[r], policy, enable)
    BY <1>5 DEF Edited
  <2>2. next > now
    BY <1>1, <2>1, UpdatedRuleKeeps
  <2>3. rules'[r].policy = policy /\ \E enabled : next = ComputeNextFireAt(policy, enabled, now)
    BY <2>1 DEF UpdatedRule
  <2>4. policy.kind = "daily" => Regular(next)
    BY <1>1, <2>3, AfterIsRegular DEF ComputeNextFireAt
  <2> QED
    BY <1>3, <2>2, <2>3, <2>4
<1>6. CASE Advanced(r)
  <2> DEFINE h == TheFire("tick").time
  <2>1. next = NextOccurrence(h) /\ UNCHANGED <<receipts, bootAt>>
    BY <1>6, AdvancedFacts DEF Advanced, Advance, clockVars
  <2>2. h \in Nat /\ Steady(r, h)
    <3>1. Tick.pc \in OnRule /\ Tick.fires # <<>> /\ Tick.rule = r
      BY <1>6, AdvancedFacts DEF OnRule, AtFire, Holding, Settling, TypeInv, Shaped, Tick, Procs
    <3> QED
      BY <3>1, HeadOfTick DEF FireIsSteady
  <2>3. next \in Nat /\ next > h /\ Regular(next)
    BY <2>1, <2>2, AfterIsRegular
  <2>4. Steady(r, next) /\ Linked(r, next)
    BY <2>2, <2>3, SteadyFrom
  <2> QED
    BY <2>1, <2>3, <2>4 DEF Steady, Linked, FiresFor, Fired
<1> QED
  BY <1>2, <1>4, <1>5, <1>6, RuleSteps DEF Dropped

LEMMA PositionsInvKept ==
  ASSUME TypeInv, LedgerInv, RetryInv, NextInv, [Next]_vars
  PROVE  PositionsInv'
<1>1. ASSUME NEW k \in DOMAIN receipts', k.kind = "fire" PROVE k.time <= now'
  <2>1. PICK r : k \in FiresFor(r)'
    BY <1>1 DEF FiresFor
  <2>2. k.time \in Nat /\ k.time <= now
    BY <2>1, FireKeysPast
  <2> QED
    BY <2>2, NowNotBefore
<1>2. ASSUME NEW r \in Rules, Pending(r)', NEW t, t = rules'[r].retry.orig PROVE Steady(r, t)'
  <2>1. CASE Pending(r) /\ rules'[r].retry = rules[r].retry
    <3>1. rules[r] \in Rule /\ Steady(r, t)
      BY <1>2, <2>1 DEF Pending, TypeInv, TypeOK, NextInv, PositionsInv
    <3>2. t \in Nat
      BY <1>2, <2>1, <3>1, FieldsOfRule DEF Retry
    <3> QED
      BY <1>2, <2>1, <3>1, <3>2, SteadyKept, AtTheClaim DEF NextInv
  <2>2. CASE Advanced(r) /\ t = TheFire("tick").time
    <3>1. Tick.pc \in OnRule /\ Tick.fires # <<>> /\ Tick.rule = r
      BY <2>2, AdvancedFacts DEF OnRule, AtFire, Holding, Settling, TypeInv, Shaped, Tick, Procs
    <3>2. Steady(r, t) /\ UNCHANGED <<receipts, bootAt>>
      BY <2>2, <3>1, HeadOfTick DEF FireIsSteady, Advanced, Advance, clockVars
    <3> QED
      BY <3>2 DEF Steady, Linked, FiresFor, Fired
  <2> QED
    BY <1>2, <2>1, <2>2, PendingSteps
<1>3. \A r \in Rules : rules'[r] # NoRule => NextIsSteady(rules[r], r)'
  BY NextIsSteadyKept
<1>4. \A r \in Rules : Pending(r)' => Steady(r, rules[r].retry.orig)'
  BY <1>2 DEF Steady, Linked, FiresFor, Fired
<1> QED
  BY <1>1, <1>3, <1>4 DEF PositionsInv

\* The head of the fires stays the head.
Stays ==
  /\ Tick.pc \in OnRule
  /\ proc'["tick"].rule = Tick.rule /\ proc'["tick"].fires = Tick.fires
  /\ TheFire("tick")' = TheFire("tick")
  /\ ~(Tick.pc = "advance" /\ proc'["tick"].pc = "fires")

LEMMA TickOnRule ==
  ASSUME TypeInv, StartInv, [Next]_vars, proc'["tick"].pc \in OnRule
  PROVE  /\ Collects \/ Passes \/ Stays
         /\ proc'["tick"].at = Tick.at /\ proc'["tick"].startup = Tick.startup
         /\ bootAt' = bootAt
         /\ proc'["tick"].pc \in AtFire =>
              \/ Reads
              \/ Tick.pc \in AtFire /\ Stays /\ proc'["tick"].snap = Tick.snap
         /\ proc'["tick"].pc \in Holding =>
              /\ Tick.pc \in Holding \/ Claims("tick")
              /\ Tick.pc \in AtFire /\ Stays /\ proc'["tick"].snap = Tick.snap
<1>1. ASSUME proc'["tick"].fires = Tick.fires PROVE TheFire("tick")' = TheFire("tick")
  BY <1>1 DEF TheFire, Tick
<1>2. ~Restart
  BY BeginTickEffect DEF Restart, OnRule, AtFire, Holding, Settling
<1>3. /\ proc'["tick"].at = Tick.at /\ proc'["tick"].startup = Tick.startup
      /\ bootAt' = bootAt
  BY <1>2, TickSteps, BootAdvances DEF TickClock
<1>4. CASE proc'["tick"] = Tick
  <2>1. Stays
    BY <1>1, <1>4 DEF Stays
  <2> QED
    BY <1>3, <1>4, <2>1 DEF AtFire
<1>5. CASE Reads
  <2>1. Stays
    BY <1>1, <1>5 DEF Stays, Reads, OnRule
  <2> QED
    BY <1>3, <1>5, <2>1 DEF Reads, Holding, Settling
<1>6. CASE Claim("tick") /\ Claims("tick")
  <2>1. /\ Tick.pc = "claim" /\ proc'["tick"].rule = Tick.rule
        /\ proc'["tick"].fires = Tick.fires /\ proc'["tick"].snap = Tick.snap
    BY <1>6, GotoEffect DEF Claims, Tick, Procs
  <2>2. Stays /\ Tick.pc \in AtFire
    BY <1>1, <2>1 DEF Stays, OnRule, AtFire
  <2> QED
    BY <1>3, <1>6, <2>1, <2>2
<1>7. CASE Stands
  <2>1. Stays /\ Tick.pc \in AtFire
    BY <1>1, <1>7 DEF Stands, Stays, OnRule, AtFire, Holding, Settling
  <2> QED
    BY <1>3, <1>7, <2>1 DEF Stands
<1>8. CASE Collects \/ Passes
  BY <1>3, <1>8 DEF Collects, Passes, AtFire, Holding, Settling
<1> QED
  BY <1>4, <1>5, <1>6, <1>7, <1>8, TickSteps DEF TickMoves

LEMMA FireIsSteadyKept ==
  ASSUME TypeInv, LedgerInv, RetryInv, NextInv, [Next]_vars,
         Tick.pc \in OnRule, proc'["tick"].pc \in OnRule, proc'["tick"].rule = Tick.rule,
         NEW n \in 1..Len(Tick.fires), NEW f, f = Tick.fires[n]
  PROVE  FireIsSteady(f)'
<1>1. PICK r, t : r = Tick.rule /\ t = f.time
  OBVIOUS
<1>2. /\ Tick.fires \in Seq(Fire) /\ Len(Tick.fires) \in Nat /\ Tick.fires # <<>>
      /\ f \in Fire /\ TheFire("tick") \in Fire
      /\ TheFire("tick") = Tick.fires[1] /\ 1 \in 1..Len(Tick.fires)
  BY FiresOfTick DEF RetryInv
<1>3. t \in Nat /\ TheFire("tick").time \in Nat
  BY <1>1, <1>2 DEF Fire
<1>4. Steady(r, t) /\ (f.kind = "fire" => Linked(r, t) /\ t <= Tick.at)
  BY <1>1 DEF NextInv, BatchInv, FireIsSteady
<1>5. TheFire("tick").time <= t
  <2>1. CASE n = 1
    BY <1>1, <1>2, <1>3, <2>1
  <2>2. CASE n # 1
    BY <1>1, <1>2, <1>3, <2>2 DEF RetryInv, FiresInv, InOrder
  <2> QED
    BY <2>1, <2>2
<1>6. Steady(r, t)'
  BY <1>3, <1>4, <1>5, SteadyKept DEF NextInv
<1>7. Linked(r, t) => Linked(r, t)'
  <2>1. TheFire("tick").time # NextOccurrence(t)
    BY <1>3, <1>5, AfterIsRegular
  <2> QED
    BY <2>1, LinkedKept
<1>8. proc'["tick"].at = Tick.at
  BY TickOnRule DEF NextInv
<1> QED
  BY <1>1, <1>4, <1>6, <1>7, <1>8 DEF FireIsSteady, Tick, Steady, Linked, FiresFor, Fired

\* What a tick collects are times the rule can go on from.
LEMMA CollectedSteady ==
  ASSUME TypeInv, RetryInv, NextInv, Collects, bootAt' = bootAt,
         proc'["tick"].at = Tick.at, proc'["tick"].startup = Tick.startup
  PROVE  BatchInv'
<1>1. PICK r, fires : /\ r = proc'["tick"].rule /\ fires = proc'["tick"].fires /\ r \in Rules
                      /\ fires = IF rules[r] = NoRule THEN <<>>
                                 ELSE CollectDueFires(rules[r], Tick.at, Tick.startup)
  BY DEF Collects
<1>2. /\ Tick.at \in Nat /\ Tick.startup \in BOOLEAN
      /\ rules[r] # NoRule => rules[r] \in Rule
  BY <1>1, FieldsOfProc DEF TypeInv, TypeOK, Time, Tick, Procs
<1> DEFINE Fits(f) == /\ Steady(r, f.time)
                      /\ f.kind = "fire" => Linked(r, f.time) /\ f.time <= Tick.at
           Goal == /\ \A n \in 1..Len(fires) : Fits(fires[n])
                   /\ \A n \in 1..Len(fires) : n + 1 \in 1..Len(fires) =>
                        Tick.startup /\ fires[n + 1].time = NextOccurrence(fires[n].time)
<1>3. ASSUME fires = <<>> PROVE Goal
  BY <1>3
<1>4. ASSUME fires # <<>>, rules[r].retry # NoRetry PROVE Goal
  <2>1. fires = <<PendingFire(rules[r])>> /\ Pending(r)
    BY <1>1, <1>2, <1>4, CollectedFires DEF Pending
  <2>2. Fits(PendingFire(rules[r]))
    BY <1>1, <2>1 DEF PendingFire, NextInv, PositionsInv, Pending
  <2> HIDE DEF Fits
  <2> QED
    BY <2>1, <2>2
<1>5. ASSUME fires # <<>>, rules[r].retry = NoRetry PROVE Goal
  <2>1. /\ rules[r] \in Rule /\ rules[r] # NoRule
        /\ fires = CollectDueFires(rules[r], Tick.at, Tick.startup)
    BY <1>1, <1>2, <1>5
  <2>2. PICK next : next = rules[r].next /\ next \in Nat
    BY <2>1, FieldsOfRule
  <2>3. /\ next # NoFire
        /\ \A n \in 1..Len(fires) : fires[n].kind = "fire" /\ fires[n].time <= Tick.at
    BY <1>2, <1>5, <2>1, <2>2, CollectedFires
  <2>4. /\ Steady(r, next) /\ Linked(r, next)
        /\ rules[r].policy.kind = "daily" => Regular(next)
    BY <1>1, <2>1, <2>2, <2>3 DEF NextInv, PositionsInv, NextIsSteady
  <2>5. /\ \A n \in 1..Len(fires) :
             fires[n].time = next \/ (fires[n].time > next /\ Regular(fires[n].time))
        /\ \A n \in 1..Len(fires) : n + 1 \in 1..Len(fires) =>
             Tick.startup /\ fires[n + 1].time = NextOccurrence(fires[n].time)
    BY <1>2, <1>5, <2>1, <2>2, <2>4, CollectedBatch
  <2>6. ASSUME NEW n \in 1..Len(fires) PROVE Fits(fires[n])
    <3>1. fires \in Seq(Fire)
      BY <1>2, <2>1, DueFires
    <3>2. fires[n] \in Fire
      BY <3>1
    <3>3. PICK t : t = fires[n].time /\ t \in Nat
      BY <3>2 DEF Fire
    <3>4. Steady(r, t) /\ Linked(r, t)
      <4>1. CASE t = next
        BY <2>4, <4>1
      <4>2. CASE t > next /\ Regular(t)
        BY <2>2, <2>4, <3>3, <4>2, SteadyFrom
      <4> QED
        BY <2>5, <3>3, <4>1, <4>2
    <3> QED
      BY <2>3, <3>3, <3>4
  <2> HIDE DEF Fits
  <2> QED
    BY <2>5, <2>6
<1>6. Goal
  BY <1>3, <1>4, <1>5
<1>7. UNCHANGED receipts
  BY DEF Collects, StoresStay
<1>8. \A f : Fits(f) => FireIsSteady(f)'
  BY <1>1, <1>7 DEF FireIsSteady, Tick, Steady, Linked, FiresFor, Fired
<1> HIDE DEF Fits
<1> QED
  BY <1>1, <1>6, <1>8 DEF BatchInv, Tick, NextOccurrence

LEMMA BatchInvKept ==
  ASSUME TypeInv, LedgerInv, RetryInv, NextInv, [Next]_vars
  PROVE  BatchInv'
<1> SUFFICES ASSUME proc'["tick"].pc \in OnRule PROVE BatchInv'
  BY DEF BatchInv, Tick
<1> DEFINE Follow(fires) ==
             \A n \in 1..Len(fires) : n + 1 \in 1..Len(fires) =>
               Tick.startup /\ fires[n + 1].time = NextOccurrence(fires[n].time)
<1>1. /\ Collects \/ Passes \/ Stays
      /\ proc'["tick"].at = Tick.at /\ proc'["tick"].startup = Tick.startup
      /\ bootAt' = bootAt
  BY TickOnRule DEF NextInv
<1>2. ASSUME NEW fires, fires = proc'["tick"].fires, Follow(fires),
             \A n \in 1..Len(fires) : FireIsSteady(fires[n])'
      PROVE  BatchInv'
  BY <1>1, <1>2 DEF BatchInv, Tick, NextOccurrence, FireIsSteady, Steady, Linked, FiresFor, Fired
<1>3. CASE Collects
  BY <1>1, <1>3, CollectedSteady
<1>4. CASE Stays
  <2>1. Tick.pc \in OnRule /\ proc'["tick"].rule = Tick.rule /\ proc'["tick"].fires = Tick.fires
    BY <1>4 DEF Stays
  <2>2. PICK fires : fires = Tick.fires
    OBVIOUS
  <2>3. Follow(fires)
    BY <2>1, <2>2 DEF NextInv, BatchInv
  <2>4. \A n \in 1..Len(fires) : FireIsSteady(fires[n])'
    <3> SUFFICES ASSUME NEW n \in 1..Len(fires), NEW f, f = fires[n] PROVE FireIsSteady(f)'
      BY DEF FireIsSteady
    <3> QED
      BY <2>1, <2>2, FireIsSteadyKept
  <2> HIDE DEF Follow
  <2> QED
    BY <1>2, <2>1, <2>2, <2>3, <2>4
<1>5. CASE Passes
  <2>1. /\ Tick.pc \in OnRule /\ Tick.fires # <<>> /\ proc'["tick"].rule = Tick.rule
        /\ proc'["tick"].fires = Tail(Tick.fires)
    BY <1>5 DEF Passes
  <2>2. Tick.fires \in Seq(Fire) /\ Len(Tick.fires) \in Nat
    BY <2>1, FiresOfTick DEF RetryInv
  <2>3. PICK fires : fires = Tail(Tick.fires)
    OBVIOUS
  <2>4. /\ Len(fires) = Len(Tick.fires) - 1
        /\ \A n \in 1..Len(fires) : fires[n] = Tick.fires[n + 1] /\ n + 1 \in 1..Len(Tick.fires)
    BY <2>1, <2>2, <2>3
  <2>5. Follow(fires)
    BY <2>1, <2>2, <2>4 DEF NextInv, BatchInv
  <2>6. \A n \in 1..Len(fires) : FireIsSteady(fires[n])'
    <3> SUFFICES ASSUME NEW n \in 1..Len(fires), NEW f, f = fires[n] PROVE FireIsSteady(f)'
      BY DEF FireIsSteady
    <3> QED
      BY <2>1, <2>4, FireIsSteadyKept
  <2> HIDE DEF Follow
  <2> QED
    BY <1>2, <2>1, <2>3, <2>5, <2>6
<1> QED
  BY <1>1, <1>3, <1>4, <1>5

LEMMA StartInvKept ==
  ASSUME TypeInv, RetryInv, NextInv, [Next]_vars
  PROVE  StartInv'
<1>1. StartInv
  BY DEF NextInv
<1>2. bootAt' <= now'
  BY <1>1, BootAdvances
<1>3. CASE proc'["tick"].at = Tick.at /\ proc'["tick"].startup = Tick.startup /\ ~Restart
  BY <1>1, <1>2, <1>3, BootAdvances DEF StartInv, Tick
<1>4. CASE Restart
  <2>1. BeginTick(TRUE) /\ bootAt' = now
    BY <1>4 DEF Restart
  <2> QED
    BY <1>2, <2>1, BeginTickEffect DEF StartInv, Tick
<1>5. CASE ~proc'["tick"].startup
  BY <1>2, <1>5 DEF StartInv, Tick
<1> QED
  BY <1>3, <1>4, <1>5, TickSteps DEF TickClock

LEMMA HoldInvKept ==
  ASSUME TypeInv, LedgerInv, RetryInv, NextInv, [Next]_vars
  PROVE  HoldInv'
<1> SUFFICES ASSUME proc'["tick"].pc \in Holding, TheFire("tick")'.kind = "fire",
                    NEW r, NEW rev, NEW h, r = proc'["tick"].rule,
                    rev = proc'["tick"].snap.rev, h = TheFire("tick")'.time
             PROVE  ~Fired(r, rev, NextOccurrence(h))'
  BY DEF HoldInv, Tick, Fired, FireKey, NextOccurrence
<1>1. r = Tick.rule /\ rev = Tick.snap.rev /\ h = TheFire("tick").time
  BY TickOnRule DEF NextInv, Stays, OnRule, AtFire
<1>2. /\ Tick.pc \in Holding \/ Claims("tick")
      /\ Tick.pc \in AtFire /\ Tick.pc \in OnRule
      /\ proc'["tick"].rule = r /\ proc'["tick"].snap.rev = rev
      /\ TheFire("tick")' = TheFire("tick") /\ TheFire("tick").kind = "fire"
  BY <1>1, TickOnRule DEF NextInv, Stays, OnRule, AtFire
<1>3. Tick.fires # <<>>
  BY <1>2 DEF TypeInv, Shaped, Tick, Procs
<1>4. /\ h \in Nat /\ Linked(r, h) /\ TheKey("tick") = FireKey(r, rev, h)
  BY <1>1, <1>2, <1>3, HeadOfTick DEF FireIsSteady
<1>5. ~Fired(r, rev, NextOccurrence(h))
  <2>1. CASE Tick.pc \in Holding
    BY <1>1, <1>2, <2>1 DEF NextInv, HoldInv
  <2>2. CASE Claims("tick")
    <3> SUFFICES ASSUME Fired(r, rev, NextOccurrence(h)) PROVE FALSE
      OBVIOUS
    <3>1. PICK k : k = FireKey(r, rev, NextOccurrence(h))
      OBVIOUS
    <3>2. k \in FiresFor(r) /\ k.time = NextOccurrence(h) /\ k.rev = rev
      BY <3>1 DEF FiresFor, Fired, FireKey
    <3>3. TheKey("tick") \in DOMAIN receipts
      BY <1>4, <3>2 DEF Linked, Fired
    <3> QED
      BY <2>2, <3>3 DEF Claims
  <2> QED
    BY <1>2, <2>1, <2>2
<1>6. ~Fired(r, rev, NextOccurrence(h))'
  <2> SUFFICES ASSUME Fired(r, rev, NextOccurrence(h))' PROVE FALSE
    OBVIOUS
  <2>1. PICK k : k = FireKey(r, rev, NextOccurrence(h))
    OBVIOUS
  <2>2. k \in FiresFor(r)' /\ k \notin FiresFor(r) /\ k.time = NextOccurrence(h)
    BY <1>5, <2>1 DEF FiresFor, Fired, FireKey, NextOccurrence
  <2>3. NextOccurrence(h) = h
    BY <1>1, <2>2, NewFireKeys
  <2> QED
    BY <1>4, <2>3, AfterIsRegular
<1> QED
  BY <1>6

LEMMA SnapInvKept ==
  ASSUME TypeInv, LedgerInv, RetryInv, NextInv, [Next]_vars
  PROVE  SnapInv'
<1> SUFFICES ASSUME NEW r, r = proc'["tick"].rule, proc'["tick"].pc \in AtFire,
                    rules'[r] # NoRule, rules'[r] # proc'["tick"].snap
             PROVE  /\ rules'[r].next = NoFire \/ rules'[r].next > proc'["tick"].at
                    /\ Pending(r)' => rules'[r].rev = proc'["tick"].snap.rev
  BY DEF SnapInv, Tick, Pending
<1>1. /\ Tick.pc \in AtFire /\ Stays /\ proc'["tick"].snap = Tick.snap
      /\ proc'["tick"].at = Tick.at
  <2>1. ~Reads
    BY DEF Reads, StoresStay
  <2> QED
    BY <2>1, TickOnRule DEF NextInv, OnRule
<1>2. r = Tick.rule /\ Tick.pc \in OnRule /\ Tick.fires # <<>>
  BY <1>1 DEF Stays, TypeInv, Shaped, Tick, Procs
<1>3. r \in Rules /\ Tick.at \in Nat /\ Tick.at <= now /\ now \in Nat
  BY <1>2, HeadOfTick
<1>4. rules'[r].next \in Nat /\ (rules[r] # NoRule => rules[r] \in Rule) /\ edits \in Nat
  BY <1>3, RevisionSteps, FieldsOfRule DEF TypeInv, TypeOK
<1>5. CASE rules'[r] = rules[r]
  BY <1>1, <1>2, <1>5 DEF NextInv, SnapInv, Pending
<1>6. CASE Created(r)
  <2>1. (rules'[r].next # NoFire => rules'[r].next > now) /\ rules'[r].retry = NoRetry
    BY <1>3, <1>4, <1>6, NewRuleIsFresh DEF Created
  <2> QED
    BY <1>1, <1>3, <1>4, <2>1 DEF Pending
<1>7. ~Advanced(r)
  BY <1>1, <1>3, AdvancedFacts DEF AtFire, Holding, Settling
<1>8. CASE Edited(r)
  <2>1. rules'[r].next # NoFire => rules'[r].next > now
    BY <1>3, <1>4, <1>8, UpdatedRuleKeeps DEF Edited
  <2>2. Pending(r)' => Pending(r) /\ rules'[r].rev = rules[r].rev
    BY <1>3, <1>7, PendingSteps
  <2>3. Pending(r) => rules[r].rev = Tick.snap.rev
    <3>1. CASE rules[r] = Tick.snap
      BY <3>1
    <3>2. CASE rules[r] # Tick.snap
      BY <1>1, <1>2, <3>2 DEF NextInv, SnapInv, Pending
    <3> QED
      BY <3>1, <3>2
  <2> QED
    BY <1>1, <1>3, <1>4, <2>1, <2>2, <2>3
<1> QED
  BY <1>3, <1>5, <1>6, <1>7, <1>8, RuleSteps DEF Dropped

\* A step that does not advance the rule keeps what is known of a head.
LEMMA HeadKept ==
  ASSUME TypeInv, LedgerInv, RetryInv, [Next]_vars, NEW r \in Rules, NEW h \in Nat,
         rules'[r] # NoRule, ~Advanced(r), bootAt' = bootAt,
         proc'["tick"].at = Tick.at, h <= Tick.at, Tick.at <= now,
         rules[r] # NoRule => NextAtHead(rules[r], r, h),
         Pending(r) => Caught(r, rules[r].retry.orig, h)
  PROVE  /\ NextAtHead(rules[r], r, h)'
         /\ Pending(r)' => Caught(r, rules[r].retry.orig, h)'
<1>1. /\ now \in Nat /\ Tick.at \in Nat /\ edits \in Nat /\ rules'[r].next \in Nat
      /\ rules \in [Rules -> Rule \cup {NoRule}]
  BY RevisionSteps, FieldsOfRule, FieldsOfProc DEF TypeInv, TypeOK, Time, Tick, Procs
<1>2. ASSUME NEW t, Caught(r, t, h), rules'[r].rev = rules[r].rev PROVE Caught(r, t, h)'
  BY <1>2, FiredStays DEF Caught, Regular, NextOccurrence
<1>3. ASSUME rules'[r].next = NoFire \/ rules'[r].next > now PROVE NextAtHead(rules[r], r, h)'
  <2>1. rules'[r].next = NoFire \/ rules'[r].next > proc'["tick"].at
    BY <1>1, <1>3
  <2> QED
    BY <2>1 DEF NextAtHead, Tick
<1>4. Pending(r)' => Caught(r, rules[r].retry.orig, h)'
  <2> SUFFICES ASSUME Pending(r)', NEW t, t = rules'[r].retry.orig PROVE Caught(r, t, h)'
    BY DEF Caught
  <2>1. Pending(r) /\ rules'[r].retry = rules[r].retry /\ rules'[r].rev = rules[r].rev
    BY PendingSteps
  <2> QED
    BY <1>2, <2>1
<1>5. CASE rules'[r] = rules[r]
  <2>1. PICK next : next = rules[r].next
    OBVIOUS
  <2>2. ASSUME next = NoFire \/ next > Tick.at \/ next = h PROVE NextAtHead(rules[r], r, h)'
    BY <1>5, <2>1, <2>2 DEF NextAtHead, Tick
  <2>3. ASSUME next < h, Caught(r, next, h), Fired(r, rules[r].rev, next)
        PROVE NextAtHead(rules[r], r, h)'
    <3>1. PICK rev : rev = rules[r].rev
      OBVIOUS
    <3>2. Caught(r, next, h)' /\ Fired(r, rev, next)'
      BY <1>2, <1>5, <2>3, <3>1, FiredStays
    <3> QED
      BY <1>5, <2>1, <2>3, <3>1, <3>2 DEF NextAtHead, Fired, FireKey, Caught
  <2>4. NextAtHead(rules[r], r, h)
    BY <1>5
  <2> QED
    BY <1>4, <2>1, <2>2, <2>3, <2>4 DEF NextAtHead
<1>6. CASE Created(r)
  BY <1>1, <1>3, <1>4, <1>6, NewRuleIsFresh DEF Created
<1>7. CASE Edited(r)
  BY <1>1, <1>3, <1>4, <1>7, UpdatedRuleKeeps DEF Edited
<1> QED
  BY <1>5, <1>6, <1>7, RuleSteps DEF Dropped

\* What is known of the occurrence after the head, once the head is claimed.
LEMMA HeadPassed ==
  ASSUME TypeInv, RetryInv, NextInv, Tick.pc \in AtFire, NEW r \in Rules, NEW g \in Nat,
         r = Tick.rule, TheFire("tick").kind = "fire", g = TheFire("tick").time,
         Fired(r, Tick.snap.rev, g), NextOccurrence(g) <= bootAt
  PROVE  /\ rules[r] # NoRule => NextAtHead(rules[r], r, NextOccurrence(g))
         /\ Pending(r) => Caught(r, rules[r].retry.orig, NextOccurrence(g))
         /\ Caught(r, g, NextOccurrence(g))
<1> DEFINE h == NextOccurrence(g)
<1>1. h \in Nat /\ g < h
  BY AfterIsRegular
<1>2. \A u \in Nat : Regular(u) /\ g < u => h <= u
  BY NoneBetween
<1> HIDE DEF h
<1>3. ASSUME NEW t \in Nat, Caught(r, t, g), rules[r].rev = Tick.snap.rev PROVE Caught(r, t, h)
  <2>1. ASSUME NEW u \in Nat, Regular(u), t < u, u < h PROVE Fired(r, rules[r].rev, u)
    <3>1. CASE u < g
      BY <1>3, <2>1, <3>1 DEF Caught
    <3>2. CASE u = g
      BY <1>3, <3>2
    <3>3. ~(g < u)
      BY <1>1, <1>2, <2>1
    <3> QED
      BY <3>1, <3>2, <3>3
  <2> QED
    BY <2>1 DEF Caught, h
<1>4. Caught(r, g, h)
  BY <1>1, <1>2 DEF Caught, h
<1>5. /\ Tick.pc \in OnRule /\ Tick.fires # <<>>
      /\ rules[r] # NoRule => rules[r] \in Rule
  BY DEF OnRule, TypeInv, TypeOK, Shaped, Tick, Procs
<1>6. ASSUME rules[r] # NoRule PROVE NextAtHead(rules[r], r, h)
  <2>1. rules[r].next \in Nat /\ NextAtHead(rules[r], r, g)
    BY <1>5, <1>6, FieldsOfRule DEF NextInv, HeadInv
  <2>2. CASE rules[r].next = NoFire \/ rules[r].next > Tick.at
    BY <2>2 DEF NextAtHead
  <2>3. CASE /\ ~(rules[r].next = NoFire \/ rules[r].next > Tick.at)
             /\ rules[r].next = g
    <3>1. rules[r] = Tick.snap
      BY <1>6, <2>3 DEF NextInv, SnapInv
    <3> QED
      BY <1>1, <1>4, <2>3, <3>1 DEF NextAtHead
  <2>4. CASE /\ ~(rules[r].next = NoFire \/ rules[r].next > Tick.at)
             /\ rules[r].next < g
             /\ Caught(r, rules[r].next, g) /\ Fired(r, rules[r].rev, rules[r].next)
    <3>1. rules[r] = Tick.snap
      BY <1>6, <2>4 DEF NextInv, SnapInv
    <3>2. Caught(r, rules[r].next, h) /\ rules[r].next < h
      BY <1>1, <1>3, <2>1, <2>4, <3>1
    <3> QED
      BY <2>4, <3>2 DEF NextAtHead
  <2> QED
    BY <2>1, <2>2, <2>3, <2>4 DEF NextAtHead
<1>7. ASSUME Pending(r) PROVE Caught(r, rules[r].retry.orig, h)
  <2>1. rules[r].retry.orig \in Nat
    BY <1>5, <1>7, FieldsOfRule DEF Pending, Retry
  <2>2. Caught(r, rules[r].retry.orig, g)
    BY <1>5, <1>7 DEF Pending, NextInv, HeadInv
  <2>3. rules[r].rev = Tick.snap.rev
    BY <1>7 DEF Pending, NextInv, SnapInv
  <2> QED
    BY <1>3, <2>1, <2>2, <2>3
<1> QED
  BY <1>4, <1>6, <1>7 DEF h

LEMMA HeadInvKept ==
  ASSUME TypeInv, LedgerInv, RetryInv, NextInv, [Next]_vars
  PROVE  HeadInv'
<1> SUFFICES ASSUME proc'["tick"].pc \in OnRule, proc'["tick"].fires # <<>>,
                    TheFire("tick")'.kind = "fire",
                    NEW r, NEW h, r = proc'["tick"].rule, h = TheFire("tick")'.time,
                    rules'[r] # NoRule
             PROVE  /\ NextAtHead(rules[r], r, h)'
                    /\ Pending(r)' => Caught(r, rules[r].retry.orig, h)'
  BY DEF HeadInv, Tick, NextAtHead, Pending, Caught, Fired, FireKey
<1>1. /\ Collects \/ Passes \/ Stays
      /\ proc'["tick"].at = Tick.at /\ proc'["tick"].startup = Tick.startup
      /\ bootAt' = bootAt
  BY TickOnRule DEF NextInv
<1>2. CASE Stays
  <2>1. /\ Tick.pc \in OnRule /\ Tick.fires # <<>> /\ r = Tick.rule
        /\ h = TheFire("tick").time /\ TheFire("tick").kind = "fire"
    BY <1>2 DEF Stays
  <2>2. /\ r \in Rules /\ h \in Nat /\ h <= Tick.at /\ Tick.at <= now
    BY <2>1, HeadOfTick
  <2>3. ~Advanced(r)
    BY <1>2, <2>2, AdvancedFacts DEF Stays
  <2>4. /\ rules[r] # NoRule => NextAtHead(rules[r], r, h)
        /\ Pending(r) => Caught(r, rules[r].retry.orig, h)
    BY <2>1 DEF NextInv, HeadInv, Pending
  <2> QED
    BY <1>1, <2>2, <2>3, <2>4, HeadKept
<1>3. CASE Collects
  <2>1. PICK fires : /\ fires = proc'["tick"].fires /\ r \in Rules
                     /\ fires = CollectDueFires(rules[r], Tick.at, Tick.startup)
                     /\ rules'[r] = rules[r] /\ rules[r] \in Rule
    BY <1>3 DEF Collects, StoresStay, TypeInv, TypeOK
  <2>2. Tick.at \in Nat /\ Tick.startup \in BOOLEAN
    BY FieldsOfProc DEF TypeInv, TypeOK, Time, Tick, Procs
  <2>3. fires # <<>> /\ TheFire("tick")' = fires[1] /\ fires[1].kind = "fire"
    <3>1. fires \in Seq(Fire)
      BY <2>1, <2>2, DueFires
    <3> QED
      BY <2>1, <3>1 DEF TheFire
  <2>4. rules[r].retry = NoRetry
    BY <2>1, <2>2, <2>3, CollectedFires DEF PendingFire
  <2>5. rules[r].next # NoFire
    BY <2>1, <2>2, <2>3, <2>4, CollectedFires
  <2>6. rules[r].policy.kind = "daily" => Regular(rules[r].next)
    BY <2>1, <2>5, NullsAssumption DEF NextInv, PositionsInv, NextIsSteady
  <2>7. h = rules[r].next
    BY <2>1, <2>2, <2>3, <2>4, <2>6, CollectedBatch
  <2> QED
    BY <2>1, <2>4, <2>7 DEF NextAtHead, Pending
<1>4. CASE Passes
  <2> DEFINE g == TheFire("tick").time
  <2>1. /\ Tick.pc \in OnRule /\ Tick.fires # <<>> /\ r = Tick.rule
        /\ proc'["tick"].fires = Tail(Tick.fires)
    BY <1>4 DEF Passes
  <2>2. /\ r \in Rules /\ g \in Nat /\ Tick.at <= now /\ Tick.at \in Nat
        /\ Tick.fires \in Seq(Fire) /\ Len(Tick.fires) \in Nat
        /\ TheFire("tick") = Tick.fires[1]
    BY <2>1, HeadOfTick, FiresOfTick DEF RetryInv
  <2>3. /\ 1 \in 1..Len(Tick.fires) /\ 2 \in 1..Len(Tick.fires)
        /\ TheFire("tick")' = Tick.fires[2]
    <3>1. /\ Len(Tail(Tick.fires)) = Len(Tick.fires) - 1
          /\ Tail(Tick.fires) \in Seq(Fire) /\ Tail(Tick.fires) # <<>>
      BY <2>1, <2>2
    <3>2. Len(Tick.fires) >= 2
      BY <2>2, <3>1
    <3>3. Tail(Tick.fires)[1] = Tick.fires[2]
      BY <2>1, <2>2, <3>1, <3>2
    <3> QED
      BY <2>1, <2>2, <3>2, <3>3 DEF TheFire
  <2>4. TheFire("tick").kind = "fire"
    BY <2>1, <2>2, <2>3, FiresOfTick DEF RetryInv, FiresInv
  <2>5. Tick.startup /\ h = NextOccurrence(g)
    <3>1. 1 + 1 \in 1..Len(Tick.fires)
      BY <2>3
    <3> QED
      BY <2>1, <2>2, <2>3, <3>1 DEF NextInv, BatchInv
  <2>6. h <= Tick.at /\ Tick.at = bootAt
    <3>1. FireIsSteady(Tick.fires[2]) /\ Tick.fires[2].kind = "fire"
      BY <2>1, <2>3 DEF NextInv, BatchInv
    <3> QED
      BY <2>3, <2>5, <3>1 DEF FireIsSteady, NextInv, StartInv
  <2>7. Tick.pc \in AtFire
    BY <1>4, <2>1 DEF Passes, OnRule, StoresStay
  <2>8. Fired(r, Tick.snap.rev, g)
    <3>1. TheKey("tick") \in DOMAIN receipts
      BY <1>4, <2>7 DEF Passes, AtFire, LedgerInv, Owning, Tick, Procs
    <3> QED
      BY <2>1, <2>4, <2>7, <3>1, HeadOfTick DEF Fired
  <2>9. /\ rules[r] # NoRule => NextAtHead(rules[r], r, h)
        /\ Pending(r) => Caught(r, rules[r].retry.orig, h)
        /\ Caught(r, g, h)
    BY <2>1, <2>2, <2>4, <2>5, <2>6, <2>7, <2>8, HeadPassed
  <2>10. h \in Nat
    BY <2>2, <2>5, AfterIsRegular
  <2>11. CASE Advanced(r)
    <3>1. UNCHANGED <<receipts, bootAt>> /\ rules'[r].rev = rules[r].rev
      BY <1>1, <2>2, <2>11, AdvancedFacts
    <3>2. rules'[r].next = NoFire \/ rules'[r].next = h
      BY <2>2, <2>5, <2>11, AdvancedFacts
    <3>3. Pending(r)' => Caught(r, rules'[r].retry.orig, h)
      BY <2>2, <2>9, <2>11, PendingSteps
    <3> QED
      BY <3>1, <3>2, <3>3 DEF NextAtHead, Caught, Fired, Regular, NextOccurrence
  <2>12. CASE ~Advanced(r)
    BY <1>1, <2>2, <2>6, <2>9, <2>10, <2>12, HeadKept
  <2> QED
    BY <2>11, <2>12
<1> QED
  BY <1>1, <1>2, <1>3, <1>4

LEMMA NextInvariant == Spec => []NextInv
<1>1. ASSUME Init PROVE NextInv
  <2>1. (\A r \in Rules : rules[r] = NoRule) /\ DOMAIN receipts = {} /\ bootAt = 0 /\ now = 0
    BY <1>1 DEF Init
  <2>2. Tick.pc = "idle" /\ ~Tick.startup
    BY <1>1 DEF Init, Idle, Tick, Procs
  <2>3. Tick.pc \notin OnRule /\ Tick.pc \notin AtFire /\ Tick.pc \notin Holding
    BY <2>2 DEF OnRule, AtFire, Holding, Settling
  <2> QED
    BY <2>1, <2>2, <2>3
       DEF NextInv, PositionsInv, BatchInv, HeadInv, SnapInv, HoldInv, StartInv
<1>2. ASSUME TypeInv, LedgerInv, RetryInv, NextInv, [Next]_vars PROVE NextInv'
  BY <1>2, PositionsInvKept, BatchInvKept, HeadInvKept, SnapInvKept, HoldInvKept, StartInvKept
     DEF NextInv
<1> QED
  BY <1>1, <1>2, TypeInvariant, LedgerInvariant, RetryInvariant, PTL DEF Spec

-----------------------------------------------------------------------------
(***************************************************************************)
(* What follows from it.                                                   *)
(***************************************************************************)
\* NextFireIsUnclaimed: advanceRuleAfterFire never leaves a rule on an occurrence
\* whose trigger was claimed before, through batches of missed fires, retries,
\* edits, failed writes and crashes; a retry of an occurrence missed before this
\* start of the process excepted.
THEOREM NextFireIsNew == Spec => NextFireIsUnclaimed
<1>1. ASSUME TypeInv, LedgerInv, RetryInv, NextInv, [Next]_vars, NEW r \in Rules,
             rules[r] # NoRule, rules'[r] # NoRule,
             rules'[r].next # rules[r].next, rules'[r].next # NoFire, ~RetriesMissed(r)
      PROVE  ~Fired(r, rules'[r].rev, rules'[r].next)
  <2> DEFINE next == rules'[r].next
             h == TheFire("tick").time
  <2>1. rules[r] \in Rule /\ now \in Nat /\ edits \in Nat /\ bootAt \in Nat /\ next \in Nat
    BY <1>1, RevisionSteps, FieldsOfRule DEF TypeInv, TypeOK, Time
  <2>2. ASSUME Fired(r, rules'[r].rev, next)
        PROVE  \E k \in FiresFor(r) : k.time = next
    BY <2>2 DEF Fired, FiresFor, FireKey
  <2>3. CASE next > now
    <3>1. \A k \in FiresFor(r) : k.time <= now
      BY <1>1 DEF NextInv, PositionsInv, FiresFor
    <3> QED
      BY <2>1, <2>2, <2>3, <3>1
  <2>4. CASE Created(r)
    BY <1>1, <2>1, <2>3, <2>4, NewRuleIsFresh DEF Created
  <2>5. CASE Edited(r)
    BY <1>1, <2>1, <2>3, <2>5, UpdatedRuleKeeps DEF Edited
  <2>6. CASE Advanced(r)
    <3>1. /\ next = NextOccurrence(h) /\ rules'[r].rev = Tick.snap.rev
          /\ Tick.rule = r /\ Tick.pc = "advance"
          /\ TheFire("tick").kind \in {"fire", "retry"}
      BY <1>1, <2>6, AdvancedFacts
    <3>2. Tick.pc \in Holding /\ Tick.pc \in OnRule /\ Tick.fires # <<>>
      BY <1>1, <3>1 DEF OnRule, AtFire, Holding, Settling, TypeInv, Shaped, Tick, Procs
    <3>3. CASE TheFire("tick").kind = "fire"
      BY <1>1, <3>1, <3>2, <3>3 DEF NextInv, HoldInv
    <3>4. CASE TheFire("tick").kind = "retry"
      <4>1. h \in Nat /\ Steady(r, h)
        BY <1>1, <3>1, <3>2, HeadOfTick DEF FireIsSteady
      <4>2. ~(h < bootAt)
        BY <1>1, <3>1, <3>4 DEF RetriesMissed, Tick
      <4>3. next > h
        BY <3>1, <4>1, AfterIsRegular
      <4> QED
        BY <2>1, <2>2, <4>1, <4>2, <4>3 DEF Steady
    <3> QED
      BY <3>1, <3>3, <3>4
  <2> QED
    BY <1>1, <2>4, <2>5, <2>6, RuleSteps DEF Dropped
<1>2. TypeInv /\ LedgerInv /\ RetryInv /\ NextInv /\ [Next]_vars =>
      [\A r \in Rules :
         (/\ rules[r] # NoRule /\ rules'[r] # NoRule
          /\ rules'[r].next # rules[r].next /\ rules'[r].next # NoFire
          /\ ~RetriesMissed(r))
         => [rule |-> r, rev |-> rules'[r].rev, kind |-> "fire",
             time |-> rules'[r].next, attempt |-> 0] \notin DOMAIN receipts]_vars
  BY <1>1 DEF Fired, FireKey
<1> QED
  BY <1>2, TypeInvariant, LedgerInvariant, RetryInvariant, NextInvariant, PTL
     DEF Spec, NextFireIsUnclaimed

=============================================================================
