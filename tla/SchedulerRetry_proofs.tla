----------------------- MODULE SchedulerRetry_proofs -----------------------
(***************************************************************************)
(* Retries and revisions of Scheduler: a retry is claimed only behind the  *)
(* failure it retries, and one occurrence gets one run in each revision of *)
(* its rule.                                                               *)
(***************************************************************************)
EXTENDS SchedulerLedger_proofs

-----------------------------------------------------------------------------
(***************************************************************************)
(* What a tick collects from a rule.                                       *)
(***************************************************************************)
InOrder(fires) == \A m, n \in 1..Len(fires) : m < n => fires[m].time < fires[n].time

PendingFire(rule) ==
  [kind |-> "retry", time |-> rule.retry.orig, attempt |-> rule.retry.attempt]

LEMMA Multiples ==
  ASSUME NEW x \in Nat, NEW m \in Nat, NEW n \in Nat, m < n, n <= x \div Period
  PROVE  m * Period < n * Period /\ n * Period <= x /\ n * Period \in Nat /\ m * Period \in Nat
<1>1. Period \in Nat /\ Period > 0
  BY SchedulerAssumption
<1> DEFINE d == x \div Period
<1>2. d \in Nat /\ d * Period <= x
  BY <1>1
<1> HIDE DEF d
<1>3. n * Period <= d * Period /\ m * Period < n * Period
  BY <1>1, <1>2 DEF d
<1> QED
  BY <1>1, <1>2, <1>3

LEMMA CollectedFires ==
  ASSUME NEW rule \in Rule, NEW at \in Nat, NEW startup \in BOOLEAN
  PROVE  LET fires == CollectDueFires(rule, at, startup)
         IN  \/ fires = <<>>
             \/ rule.retry # NoRetry /\ fires = <<PendingFire(rule)>>
             \/ /\ rule.retry = NoRetry /\ rule.next # NoFire
                /\ \A n \in 1..Len(fires) :
                     /\ fires[n].kind = "fire" /\ fires[n].attempt = 0
                     /\ fires[n].time >= rule.next /\ fires[n].time <= at
                /\ InOrder(fires)
<1>1. rule.next \in Nat /\ rule.enabled \in BOOLEAN
  BY FieldsOfRule
<1> DEFINE count == Least((at - rule.next) \div Period + 1, MaxFireAll)
           all == [n \in 1..count |-> Occurrence(rule.next + (n - 1) * Period)]
           Goal(fires) == /\ \A n \in 1..Len(fires) :
                               /\ fires[n].kind = "fire" /\ fires[n].attempt = 0
                               /\ fires[n].time >= rule.next /\ fires[n].time <= at
                          /\ InOrder(fires)
<1>2. ASSUME rule.next <= at PROVE Goal(all)
  <2>1. PICK x \in Nat : x = at - rule.next
    BY <1>1, <1>2
  <2>2. Period \in Nat \ {0} /\ MaxFireAll \in Nat
    BY SchedulerAssumption
  <2>3. x \div Period \in Nat
    BY <2>2
  <2>4. count \in Nat /\ count <= x \div Period + 1
    BY <2>1, <2>2, <2>3 DEF Least
  <2> HIDE DEF count
  <2>5. Len(all) = count
    BY <2>4
  <2>6. ASSUME NEW n \in 1..count
        PROVE  /\ all[n].kind = "fire" /\ all[n].attempt = 0
               /\ all[n].time = rule.next + (n - 1) * Period
               /\ (n - 1) * Period \in Nat /\ (n - 1) * Period <= x
    <3>1. n - 1 \in Nat /\ n - 1 <= x \div Period
      BY <2>3, <2>4
    <3>2. CASE n - 1 = 0
      BY <2>2, <3>2 DEF Occurrence
    <3>3. CASE n - 1 # 0
      <4>1. (n - 1) * Period <= x /\ (n - 1) * Period \in Nat
        BY <3>1, <3>3, Multiples
      <4> QED
        BY <4>1 DEF Occurrence
    <3> QED
      BY <3>2, <3>3
  <2>7. ASSUME NEW m \in 1..count, NEW n \in 1..count, m < n
        PROVE  all[m].time < all[n].time
    <3>1. m - 1 \in Nat /\ n - 1 \in Nat /\ m - 1 < n - 1 /\ n - 1 <= x \div Period
      BY <2>3, <2>4, <2>7
    <3>2. (m - 1) * Period < (n - 1) * Period
      BY <3>1, Multiples
    <3> QED
      BY <1>1, <2>6, <3>2
  <2>8. \A n \in 1..count : all[n].time >= rule.next /\ all[n].time <= at
    BY <1>1, <2>1, <2>6
  <2> QED
    BY <2>5, <2>6, <2>7, <2>8 DEF InOrder
<1>3. Goal(<<Occurrence(rule.next)>>) \/ rule.next > at
  BY <1>1 DEF Occurrence, InOrder
<1> HIDE DEF all, Goal
<1>4. \/ CollectDueFires(rule, at, startup) = <<>>
      \/ rule.retry # NoRetry /\ CollectDueFires(rule, at, startup) = <<PendingFire(rule)>>
      \/ /\ rule.retry = NoRetry /\ rule.next # NoFire /\ rule.next <= at
         /\ CollectDueFires(rule, at, startup) \in {<<Occurrence(rule.next)>>, all}
  <2>1. CASE ~rule.enabled \/ rule.retry # NoRetry
    BY <2>1, Zenon DEF CollectDueFires, PendingFire
  <2>2. CASE rule.enabled /\ rule.retry = NoRetry /\ (rule.next = NoFire \/ rule.next > at)
    BY <2>2, Zenon DEF CollectDueFires
  <2>3. CASE rule.enabled /\ rule.retry = NoRetry /\ ~ (rule.next = NoFire \/ rule.next > at)
    <3>1. rule.next <= at
      BY <1>1, <2>3
    <3> QED
      BY <2>3, <3>1, Zenon DEF CollectDueFires, all, count
  <2> QED
    BY <2>1, <2>2, <2>3
<1>5. rule.next <= at => ~(rule.next > at)
  BY <1>1
<1> QED
  BY <1>2, <1>3, <1>4, <1>5 DEF Goal

-----------------------------------------------------------------------------
(***************************************************************************)
(* What a step does to the tick.                                           *)
(***************************************************************************)
Tick == proc["tick"]
OnRule == {"fires"} \cup AtFire

StoresStay == UNCHANGED <<now, rules, deleted, receipts, runs, edits, faults>>

Collects ==
  /\ StoresStay
  /\ proc'["tick"].pc = "fires" /\ proc'["tick"].rule \in Rules
  /\ proc'["tick"].fires =
       IF rules[proc'["tick"].rule] = NoRule THEN <<>>
       ELSE CollectDueFires(rules[proc'["tick"].rule], Tick.at, Tick.startup)

Reads ==
  /\ StoresStay
  /\ Tick.pc = "fires" /\ Tick.fires # <<>> /\ proc'["tick"].pc = "claim"
  /\ rules[Tick.rule] # NoRule /\ proc'["tick"].snap = rules[Tick.rule]
  /\ proc'["tick"].rule = Tick.rule /\ proc'["tick"].fires = Tick.fires

\* The head of the fires is done with: its rule is gone, or its key is claimed.
Passes ==
  /\ Tick.pc \in OnRule /\ Tick.fires # <<>>
  /\ Tick.pc = "fires" => rules[Tick.rule] = NoRule /\ StoresStay
  /\ Tick.pc = "claim" => TheKey("tick") \in DOMAIN receipts
  /\ proc'["tick"].pc = "fires" /\ proc'["tick"].rule = Tick.rule
  /\ proc'["tick"].fires = Tail(Tick.fires)

Stands ==
  /\ Tick.pc \in Holding /\ proc'["tick"].pc \in Holding
  /\ proc'["tick"].pc \in Admitting => Tick.pc \in Admitting
  /\ proc'["tick"].rule = Tick.rule /\ proc'["tick"].fires = Tick.fires
  /\ proc'["tick"].snap = Tick.snap
  /\ TheKey("tick")' = TheKey("tick")

TickMoves ==
  \/ proc'["tick"] = Tick
  \/ proc'["tick"].pc \notin OnRule
  \/ Collects \/ Reads \/ Passes
  \/ Claim("tick") /\ Claims("tick")
  \/ Stands

\* A tick keeps the time it began at; only a restart begins a startup tick.
TickClock ==
  \/ proc'["tick"].at = Tick.at /\ proc'["tick"].startup = Tick.startup
  \/ /\ proc'["tick"].pc \notin OnRule /\ proc'["tick"].at \in {0, now}
     /\ proc'["tick"].startup => Restart

LEMMA ReadRuleMoves ==
  ASSUME TypeInv, ReadRule("tick")
  PROVE  /\ proc'["tick"].pc \notin OnRule \/ Collects
         /\ proc'["tick"].at = Tick.at /\ proc'["tick"].startup = Tick.startup
<1>1. /\ proc \in [Procs -> Proc] /\ "tick" \in Procs /\ Tick \in Proc
      /\ rules \in [Rules -> Rule \cup {NoRule}]
  BY DEF TypeInv, TypeOK, Procs, Tick
<1>2. StoresStay
  BY DEF ReadRule, StoresStay, clockVars
<1>3. CASE Goto("tick", "launch")
  BY <1>1, <1>3, GotoEffect DEF OnRule, AtFire, Holding, Settling, Tick
<1>4. ASSUME NEW r \in Tick.todo,
             proc' = [proc EXCEPT
               !["tick"].todo = @ \ {r}, !["tick"].rule = r, !["tick"].pc = "fires",
               !["tick"].fires = IF rules[r] = NoRule THEN <<>>
                            ELSE CollectDueFires(rules[r], Tick.at, Tick.startup)]
      PROVE  /\ Collects
             /\ proc'["tick"].at = Tick.at /\ proc'["tick"].startup = Tick.startup
  <2>1. r \in Rules
    BY <1>1, FieldsOfProc
  <2>2. PICK fires : fires = IF rules[r] = NoRule THEN <<>>
                            ELSE CollectDueFires(rules[r], Tick.at, Tick.startup)
    OBVIOUS
  <2>3. /\ proc'["tick"].pc = "fires" /\ proc'["tick"].rule = r /\ proc'["tick"].fires = fires
        /\ proc'["tick"].at = Tick.at /\ proc'["tick"].startup = Tick.startup
    BY <1>1, <1>4, <2>2 DEF Proc, Tick
  <2> QED
    BY <1>2, <2>1, <2>2, <2>3 DEF Collects
<1> QED
  BY <1>3, <1>4 DEF ReadRule, Tick

LEMMA ReadLatestMoves ==
  ASSUME TypeInv, ReadLatestRule("tick")
  PROVE  /\ proc'["tick"].pc \notin OnRule \/ Reads \/ Passes
         /\ proc'["tick"].at = Tick.at /\ proc'["tick"].startup = Tick.startup
<1>1. proc \in [Procs -> Proc] /\ "tick" \in Procs /\ Tick \in Proc /\ Tick.pc = "fires"
  BY DEF TypeInv, TypeOK, Procs, Tick, ReadLatestRule
<1>2. StoresStay
  BY DEF ReadLatestRule, StoresStay, clockVars
<1>3. CASE Goto("tick", "rules")
  BY <1>1, <1>3, GotoEffect DEF OnRule, AtFire, Holding, Settling, Tick
<1>4. CASE /\ Tick.fires # <<>> /\ rules[Tick.rule] = NoRule
           /\ proc' = [proc EXCEPT !["tick"].fires = Tail(@)]
  BY <1>1, <1>2, <1>4 DEF Passes, OnRule, Tick, Proc
<1>5. CASE /\ Tick.fires # <<>> /\ rules[Tick.rule] # NoRule
           /\ proc' = [proc EXCEPT !["tick"].pc = "claim", !["tick"].snap = rules[Tick.rule]]
  BY <1>1, <1>2, <1>5 DEF Reads, Tick, Proc
<1> QED
  BY <1>3, <1>4, <1>5 DEF ReadLatestRule, Tick

LEMMA OneAtATime ==
  ASSUME TypeInv, NEW p \in Procs, ProcStep(p) \/ WriteFails(p)
  PROVE  OthersStay(p)
<1>1. ASSUME Finish(p) PROVE OthersStay(p)
  BY <1>1, FinishEffect
<1>2. ASSUME NEW admitted \in BOOLEAN, NextFireOf(p, admitted) PROVE OthersStay(p)
  BY <1>2, NextFireOfEffect
<1>3. ASSUME FailFire(p) PROVE OthersStay(p)
  BY <1>3, FailFireEffect
<1>4. ASSUME NEW pc, Goto(p, pc) PROVE OthersStay(p)
  BY <1>4, GotoEffect
<1>5. CASE ReadRule(p) \/ ReadLatestRule(p)
  BY <1>5, ReadRuleEffect
<1>6. CASE Claim(p)
  BY <1>1, <1>2, <1>4, <1>6 DEF Claim
<1>7. CASE ReadActiveRuns(p) \/ CancelVictim(p)
  BY <1>3, <1>7, ReplaceEffect
<1>8. CASE AdmitMissionAndRun(p)
  BY <1>3, <1>4, <1>8, AdmitCases, AdmitsEffect DEF Admits
<1>9. CASE UpdateReceipt(p)
  BY <1>2, <1>4, <1>9 DEF UpdateReceipt
<1>10. CASE Advance(p)
  BY <1>1, <1>2, <1>3, <1>10 DEF Advance
<1>11. CASE WriteFails(p)
  BY <1>1, <1>3, <1>11 DEF WriteFails
<1>12. CASE LaunchRun(p) \/ LaunchReturns(p)
  BY <1>1, <1>4, <1>12 DEF LaunchRun, LaunchReturns, OthersStay, TypeInv, TypeOK
<1> QED
  BY <1>5, <1>6, <1>7, <1>8, <1>9, <1>10, <1>11, <1>12 DEF ProcStep

LEMMA TickSteps ==
  ASSUME TypeInv, [Next]_vars
  PROVE  TickMoves /\ TickClock
<1> DEFINE Goal == TickMoves /\ TickClock
<1> "tick" \in Procs
  BY DEF Procs
<1>1. ASSUME proc'["tick"] = Tick PROVE Goal
  BY <1>1 DEF TickMoves, TickClock
<1>2. ASSUME OthersStay("manual") PROVE Goal
  BY <1>1, <1>2 DEF OthersStay, Procs, Tick
<1>3. ASSUME NEW startup \in BOOLEAN, BeginTick(startup), startup => Restart PROVE Goal
  BY <1>3, BeginTickEffect DEF TickMoves, TickClock, OnRule, AtFire, Holding, Settling
<1>4. ASSUME Finish("tick") PROVE Goal
  BY <1>4, FinishEffect DEF TickMoves, TickClock, OnRule, AtFire, Holding, Settling
<1>5. ASSUME NEW admitted \in BOOLEAN, NextFireOf("tick", admitted), Tick.pc \in AtFire,
             Tick.pc = "claim" => TheKey("tick") \in DOMAIN receipts
      PROVE  Goal
  <2>1. Tick.fires # <<>>
    BY <1>5 DEF TypeInv, Shaped, Tick
  <2> QED
    BY <1>5, <2>1, NextFireOfEffect
       DEF TickMoves, TickClock, Passes, OnRule, AtFire, Holding, Settling, Tick
<1>6. ASSUME FailFire("tick"), Tick.pc \in Holding PROVE Goal
  BY <1>6, FailFireEffect DEF TickMoves, TickClock, Stands, Tick, Holding, Settling, Admitting
<1>7. ASSUME NEW pc \in Settling, Goto("tick", pc), Tick.pc \in Holding PROVE Goal
  BY <1>7, GotoEffect DEF TickMoves, TickClock, Stands, Tick, Holding, Settling, Admitting
<1>8. ASSUME Claim("tick") PROVE Goal
  <2>1. Tick.pc \in AtFire
    BY <1>8 DEF Claim, Tick, AtFire
  <2>2. CASE Claims("tick")
    <3>1. proc'["tick"].at = Tick.at /\ proc'["tick"].startup = Tick.startup
      BY <2>2, GotoEffect DEF Claims, Tick
    <3> QED
      BY <1>8, <2>2, <3>1 DEF TickMoves, TickClock
  <2>3. CASE NextFireOf("tick", FALSE) /\ TheKey("tick") \in DOMAIN receipts
    BY <1>5, <2>1, <2>3
  <2> QED
    BY <1>4, <1>8, <2>2, <2>3 DEF Claim, Claims
<1>9. ASSUME ReadActiveRuns("tick") \/ CancelVictim("tick") PROVE Goal
  <2>1. CASE FailFire("tick")
    BY <1>6, <1>9, <2>1 DEF ReadActiveRuns, CancelVictim, Holding, Tick
  <2>2. CASE ~FailFire("tick")
    BY <1>9, <2>2, ReplaceEffect DEF TickMoves, TickClock, Stands, Tick, Holding, Admitting
  <2> QED
    BY <2>1, <2>2
<1>10. ASSUME AdmitMissionAndRun("tick") PROVE Goal
  <2>1. Tick.pc = "admit"
    BY <1>10 DEF AdmitMissionAndRun, Tick
  <2>2. ASSUME NEW i \in RunIds, Admits("tick", i) PROVE Goal
    BY <2>1, <2>2, AdmitsEffect
       DEF Admits, TickMoves, TickClock, Stands, Tick, Holding, Settling, Admitting
  <2>3. "admit" \in Holding /\ "receipt" \in Settling
    BY DEF Holding, Settling
  <2> QED
    BY <1>6, <1>7, <1>10, <2>1, <2>2, <2>3, AdmitCases
<1>11. ASSUME UpdateReceipt("tick") PROVE Goal
  <2>1. Goto("tick", "advance") /\ Tick.pc = "receipt"
    BY <1>11 DEF UpdateReceipt, Tick
  <2> QED
    BY <1>7, <2>1 DEF Holding, Settling
<1>12. ASSUME Advance("tick") PROVE Goal
  <2>1. Tick.pc = "advance" /\ (Tick.outcome = "admitted") \in BOOLEAN
    BY <1>12 DEF Advance, Tick
  <2>2. Tick.pc \in Holding /\ Tick.pc \in AtFire
    BY <2>1 DEF Holding, Settling, AtFire
  <2> QED
    BY <1>4, <1>5, <1>6, <1>12, <2>1, <2>2 DEF Advance, Tick
<1>13. ASSUME WriteFails("tick") PROVE Goal
  BY <1>4, <1>6, <1>13 DEF WriteFails, Holding, Settling, Tick
<1>14. ASSUME LaunchRun("tick") \/ LaunchReturns("tick") PROVE Goal
  <2>1. proc'["tick"].pc \notin OnRule /\ TickClock
    BY <1>14, FinishEffect, GotoEffect DEF LaunchRun, LaunchReturns, TypeInv, TypeOK, Proc, Tick,
       TickClock, OnRule, AtFire, Holding, Settling
  <2> QED
    BY <2>1 DEF TickMoves
<1>15. ASSUME ProcStep("tick") PROVE Goal
  BY <1>8, <1>9, <1>10, <1>11, <1>12, <1>14, <1>15, ReadRuleMoves, ReadLatestMoves
     DEF ProcStep, TickMoves, TickClock
<1>16. ASSUME ProcStep("manual") \/ WriteFails("manual") PROVE Goal
  <2>1. OthersStay("manual")
    BY <1>16, OneAtATime DEF Procs
  <2> QED
    BY <1>2, <2>1
<1>17. ASSUME UNCHANGED proc PROVE Goal
  BY <1>1, <1>17 DEF Tick
<1>18. ASSUME NEW r \in Rules, ManualTestFire(r) PROVE Goal
  BY <1>2, <1>18, ManualTestFireEffect
<1>19. ASSUME OwnerStep PROVE Goal
  BY <1>17, <1>18, <1>19 DEF OwnerStep, CreateRule, UpdateRule, RemoveRule, ApplyScheduleOwner,
     DropRule, StopRun
<1>20. CASE TickStart \/ Restart
  BY <1>3, <1>20 DEF TickStart, Restart
<1>21. CASE Crash
  BY <1>21 DEF Crash, Idle, TickMoves, TickClock, OnRule, AtFire, Holding, Settling
<1>22. CASE ClockTick \/ UNCHANGED vars
  BY <1>17, <1>22 DEF ClockTick, vars
<1> QED
  BY <1>13, <1>15, <1>16, <1>19, <1>20, <1>21, <1>22 DEF Next, Procs

-----------------------------------------------------------------------------
(***************************************************************************)
(* The invariant.                                                          *)
(***************************************************************************)
RetriesOf(r) == {k \in DOMAIN receipts : k.kind = "retry" /\ k.rule = r}

NextAfter(r, t) == rules[r] # NoRule => rules[r].next = NoFire \/ rules[r].next > t

Pending(r) == rules[r] # NoRule /\ rules[r].retry # NoRetry

\* The failure that an attempt is a retry of.
Behind(r, t, attempt) ==
  \E l \in DOMAIN receipts :
    /\ l.rule = r /\ l.time = t /\ l.kind # "manual"
    /\ l.attempt + 1 = attempt
    /\ receipts[l] = "failed"

\* Another trigger of k's occurrence, under the same revision, has run i.
Rerun(k, made, i) ==
  /\ SameOccurrence(runs[i].key, k) /\ runs[i].key.rev = k.rev
  /\ runs[i].made = made /\ runs[i].key # k

\* Such runs all failed, and k retries them.
Retriable(k, made) ==
  \A i \in Used : Rerun(k, made, i) => receipts[runs[i].key] = "failed" /\ k.kind = "retry"

RetryKey(r, t, attempt) ==
  [rule |-> r, rev |-> rules[r].rev, kind |-> "retry", time |-> t, attempt |-> attempt]

\* A pending retry is that of the latest occurrence retried, and the next fire is
\* after it.
PendingInv ==
  \A r \in Rules :
    Pending(r) =>
      LET t == rules[r].retry.orig
          attempt == rules[r].retry.attempt
      IN  /\ t <= now
          /\ Behind(r, t, attempt)
          /\ NextAfter(r, t)
          /\ \A k \in RetriesOf(r) : k.time <= t
          /\ Retriable(RetryKey(r, t, attempt), rules[r].made)

KeysInv ==
  \A k \in DOMAIN receipts :
    /\ k.kind = "fire" => k.attempt = 0
    /\ k.kind = "retry" =>
         /\ k.time <= now
         /\ NextAfter(k.rule, k.time)
         /\ Behind(k.rule, k.time, k.attempt)

\* No run and no tick is ahead of its rule in revisions.
Known(r, made, rev) ==
  /\ made <= edits
  /\ rules[r] # NoRule /\ rules[r].made = made => rev <= rules[r].rev

RevisionsInv ==
  /\ \A r \in Rules : rules[r] # NoRule => rules[r].made <= edits
  /\ \A i \in Used :
       runs[i].key.kind # "manual" => Known(runs[i].key.rule, runs[i].made, runs[i].key.rev)
  /\ Tick.pc \in AtFire => Known(Tick.rule, Tick.snap.made, Tick.snap.rev)

\* What the tick has collected is not behind what it has claimed.
Ahead(f) ==
  LET r == Tick.rule IN
  /\ f.time <= now
  /\ f.kind = "fire" =>
       /\ f.attempt = 0
       /\ \A k \in RetriesOf(r) : k.time < f.time
       /\ Pending(r) => rules[r].retry.orig < f.time
  /\ f.kind = "retry" =>
       /\ Behind(r, f.time, f.attempt)
       /\ \A k \in RetriesOf(r) : k.time <= f.time
       /\ NextAfter(r, f.time)
       /\ Pending(r) => rules[r].retry.orig = f.time /\ rules[r].retry.attempt = f.attempt

FiresInv ==
  Tick.pc \in OnRule =>
    /\ \A n \in 1..Len(Tick.fires) : Ahead(Tick.fires[n])
    /\ \A n \in 1..Len(Tick.fires) : Tick.fires[n].kind = "retry" => Len(Tick.fires) = 1
    /\ InOrder(Tick.fires)

TickInv ==
  /\ Tick.at <= now
  /\ /\ Tick.pc = "fires" /\ Tick.fires # <<>> /\ TheFire("tick").kind = "retry"
     /\ rules[Tick.rule] # NoRule
     => Retriable(RetryKey(Tick.rule, TheFire("tick").time, TheFire("tick").attempt),
                  rules[Tick.rule].made)
  /\ Tick.pc = "claim" /\ TheFire("tick").kind = "retry"
     => Retriable(TheKey("tick"), Tick.snap.made)
  /\ Tick.pc \in Holding => Retriable(TheKey("tick"), Tick.snap.made)
  /\ Tick.pc \in Admitting =>
       \A i \in Used :
         /\ runs[i].key.rule = Tick.rule /\ runs[i].key.kind # "manual"
         /\ receipts[runs[i].key] = "failed"
         => faults > 0

RetryInv == PendingInv /\ KeysInv /\ RevisionsInv /\ FiresInv /\ TickInv

-----------------------------------------------------------------------------
(***************************************************************************)
(* What a step does to the receipts and to the rows.                       *)
(***************************************************************************)
LEMMA NowNotBefore ==
  ASSUME TypeInv, [Next]_vars
  PROVE  now \in Nat /\ now' \in Nat /\ now <= now' /\ edits \in Nat /\ edits' \in Nat /\ edits <= edits'
<1>1. now \in Nat /\ edits \in Nat
  BY DEF TypeInv, TypeOK, Time
<1>2. now' = now \/ now' = now + 1
  BY DEF Next, TickStart, ProcStep, ReadRule, ReadLatestRule, Claim, ReadActiveRuns, CancelVictim,
     AdmitMissionAndRun, UpdateReceipt, Advance, LaunchRun, LaunchReturns, OwnerStep, CreateRule,
     UpdateRule, RemoveRule, ApplyScheduleOwner, DropRule, ManualTestFire, StopRun, WriteFails,
     ClockTick, Crash, Restart, vars, clockVars
<1>3. edits' = edits \/ edits' = edits + 1
  BY DEF Next, TickStart, ProcStep, ReadRule, ReadLatestRule, Claim, ReadActiveRuns, CancelVictim,
     AdmitMissionAndRun, UpdateReceipt, Advance, LaunchRun, LaunchReturns, OwnerStep, CreateRule,
     UpdateRule, Edit, RemoveRule, ApplyScheduleOwner, DropRule, ManualTestFire, StopRun, WriteFails,
     ClockTick, Crash, Restart, vars, clockVars
<1> QED
  BY <1>1, <1>2, <1>3

LEMMA FailedStays ==
  ASSUME TypeInv, LedgerInv, [Next]_vars, NEW k \in DOMAIN receipts, receipts[k] = "failed"
  PROVE  k \in DOMAIN receipts' /\ receipts'[k] = "failed"
<1>1. ASSUME NEW p \in Procs, UpdateReceipt(p), TheKey(p) = k PROVE receipts'[k] = "failed"
  <2>1. /\ proc[p].pc = "receipt" /\ receipts' = [receipts EXCEPT ![k] = proc[p].outcome]
    BY <1>1 DEF UpdateReceipt
  <2>2. proc[p].outcome = "failed"
    BY <1>1, <2>1 DEF LedgerInv, Owning
  <2> QED
    BY <2>1, <2>2
<1> QED
  BY <1>1, ReceiptsKept

LEMMA BehindStays ==
  ASSUME TypeInv, LedgerInv, [Next]_vars, NEW r, NEW t, NEW attempt, Behind(r, t, attempt)
  PROVE  Behind(r, t, attempt)'
BY FailedStays DEF Behind

\* A key that is new is the one its trigger claims.
LEMMA NewKeys ==
  ASSUME TypeInv, [Next]_vars, NEW k \in DOMAIN receipts', k \notin DOMAIN receipts
  PROVE  \E p \in Procs : Claim(p) /\ Claims(p) /\ k = TheKey(p)
<1>1. ASSUME NEW p \in Procs, Claims(p) PROVE k = TheKey(p)
  BY <1>1 DEF Claims
<1>2. ASSUME NEW p \in Procs, UpdateReceipt(p) PROVE FALSE
  BY <1>2 DEF UpdateReceipt
<1> QED
  BY <1>1, <1>2, ReceiptSteps

LEMMA NewScheduledKeys ==
  ASSUME TypeInv, [Next]_vars, NEW k \in DOMAIN receipts', k \notin DOMAIN receipts,
         k.kind # "manual"
  PROVE  Claim("tick") /\ Claims("tick") /\ k = TheKey("tick")
<1>1. PICK p \in Procs : Claim(p) /\ Claims(p) /\ k = TheKey(p)
  BY NewKeys
<1>2. (TheFire(p).kind = "manual") <=> (p = "manual")
  BY <1>1, TheFireType DEF Claims, AtFire
<1>3. p = "tick"
  BY <1>1, <1>2 DEF TheKey, Procs
<1> QED
  BY <1>1, <1>3

\* A scheduled run that is there after a step was there before, or is the one the
\* tick admits.
LEMMA ScheduledRows ==
  ASSUME TypeInv, [Next]_vars, NEW i \in Used', runs'[i].key.kind # "manual"
  PROVE  \/ i \in Used /\ runs'[i].key = runs[i].key /\ runs'[i].made = runs[i].made
         \/ /\ Admits("tick", i)
            /\ runs'[i].key = TheKey("tick") /\ runs'[i].made = Tick.snap.made
<1>0. i \in RunIds /\ runs'[i] # NoRun
  BY DEF Used
<1>1. CASE RowsStay
  BY <1>0, <1>1 DEF RowsStay, Used
<1>2. ASSUME NEW p \in Procs, NEW n \in RunIds, Admits(p, n), i # n
      PROVE  i \in Used /\ runs'[i].key = runs[i].key /\ runs'[i].made = runs[i].made
  BY <1>0, <1>2 DEF Admits, Used, TypeInv, TypeOK
<1>3. ASSUME NEW p \in Procs, Admits(p, i)
      PROVE  /\ Admits("tick", i)
             /\ runs'[i].key = TheKey("tick") /\ runs'[i].made = Tick.snap.made
  <2>1. runs'[i].key = TheKey(p) /\ runs'[i].made = proc[p].snap.made /\ proc[p].pc = "admit"
    BY <1>0, <1>3 DEF Admits, TypeInv, TypeOK
  <2>2. (TheFire(p).kind = "manual") <=> (p = "manual")
    BY <2>1, TheFireType DEF AtFire, Holding
  <2>3. p = "tick"
    BY <2>1, <2>2 DEF TheKey, Procs
  <2> QED
    BY <1>3, <2>1, <2>3 DEF Tick
<1> QED
  BY <1>1, <1>2, <1>3, RunSteps

LEMMA UsedHasReceipt ==
  ASSUME LedgerInv, NEW i \in Used
  PROVE  i \in RunIds /\ runs[i].key \in DOMAIN receipts
BY DEF Used, LedgerInv, Row

LEMMA RetriableKept ==
  ASSUME TypeInv, LedgerInv, [Next]_vars, NEW k, NEW made, Retriable(k, made),
         \A i \in RunIds :
           Admits("tick", i) /\ SameOccurrence(TheKey("tick"), k)
           /\ TheKey("tick").rev = k.rev /\ Tick.snap.made = made => TheKey("tick") = k
  PROVE  Retriable(k, made)'
<1> SUFFICES ASSUME NEW i \in Used', Rerun(k, made, i)'
             PROVE  receipts'[runs'[i].key] = "failed" /\ k.kind = "retry"
  BY DEF Retriable
<1>1. /\ SameOccurrence(runs'[i].key, k) /\ runs'[i].key.rev = k.rev
      /\ runs'[i].made = made /\ runs'[i].key # k
  BY DEF Rerun, SameOccurrence
<1>2. i \in RunIds /\ runs'[i].key.kind # "manual"
  BY <1>1 DEF Used, SameOccurrence
<1>3. CASE i \in Used /\ runs'[i].key = runs[i].key /\ runs'[i].made = runs[i].made
  <2>1. Rerun(k, made, i)
    BY <1>1, <1>3 DEF Rerun
  <2>2. receipts[runs[i].key] = "failed" /\ k.kind = "retry"
    BY <1>3, <2>1 DEF Retriable
  <2> QED
    BY <1>3, <2>2, UsedHasReceipt, FailedStays
<1>4. ~(Admits("tick", i) /\ runs'[i].key = TheKey("tick") /\ runs'[i].made = Tick.snap.made)
  BY <1>1, <1>2
<1> QED
  BY <1>2, <1>3, <1>4, ScheduledRows

-----------------------------------------------------------------------------
(***************************************************************************)
(* What a step does to the rules.                                          *)
(***************************************************************************)
\* The tick is at the end of a fire of the rule it advances.
LEMMA AdvancedFacts ==
  ASSUME TypeInv, LedgerInv, NEW r \in Rules, Advanced(r)
  PROVE  /\ Tick.pc = "advance" /\ Tick.rule = r /\ Tick.snap = rules[r]
         /\ rules[r] \in Rule /\ TheFire("tick") \in Fire /\ TheFire("tick").kind \in {"fire", "retry"}
         /\ TheKey("tick") \in DOMAIN receipts /\ receipts[TheKey("tick")] = Tick.outcome
         /\ UNCHANGED <<receipts, runs, now, edits>>
         /\ proc'["tick"].pc = "fires"
         /\ rules'[r].rev = rules[r].rev /\ rules'[r].made = rules[r].made
         /\ rules'[r].next # NoFire =>
              /\ rules'[r].next > TheFire("tick").time
              /\ rules'[r].next = NextOccurrence(TheFire("tick").time)
         /\ \/ rules'[r].retry = NoRetry
            \/ rules'[r].retry = rules[r].retry
            \/ /\ Tick.outcome = "failed"
               /\ rules'[r].retry.orig = TheFire("tick").time
               /\ rules'[r].retry.attempt = TheFire("tick").attempt + 1
<1>1. /\ Tick.pc = "advance" /\ Tick.rule = r /\ Tick.snap = rules[r] /\ rules[r] # NoRule
      /\ UNCHANGED <<receipts, runs, now, edits>> /\ "tick" \in Procs
      /\ Advance("tick")
  BY DEF Advanced, Advance, Tick, Procs, clockVars
<1>2. Tick.pc \in Holding /\ Tick.pc \in AtFire
  BY <1>1 DEF Holding, Settling, AtFire
<1>3. /\ TheKey("tick") \in DOMAIN receipts /\ receipts[TheKey("tick")] = Tick.outcome
  BY <1>1, <1>2 DEF LedgerInv, Owning, Tick
<1>4. TheFire("tick") \in Fire /\ TheFire("tick").kind \in {"fire", "retry"}
  BY <1>1, <1>2, TheFireType DEF Tick, Fire
<1>5. /\ rules[r] \in Rule /\ Tick.at \in Nat /\ Tick.outcome \in Outcome
      /\ SkipsFire("tick") \in BOOLEAN
  BY <1>1, AdvanceRules DEF Tick
<1>6. /\ rules'[r].rev = rules[r].rev /\ rules'[r].made = rules[r].made
      /\ rules'[r].next # NoFire =>
           /\ rules'[r].next > TheFire("tick").time
           /\ rules'[r].next = NextOccurrence(TheFire("tick").time)
      /\ \/ rules'[r].retry = NoRetry
         \/ rules'[r].retry = rules[r].retry
         \/ /\ Tick.outcome = "failed"
            /\ rules'[r].retry.orig = TheFire("tick").time
            /\ rules'[r].retry.attempt = TheFire("tick").attempt + 1
  BY <1>4, <1>5, AdvancedRuleKeeps DEF Advanced, Tick
<1>7. proc'["tick"].pc = "fires"
  <2>1. NextFireOf("tick", Tick.outcome = "admitted") /\ (Tick.outcome = "admitted") \in BOOLEAN
    BY <1>1 DEF Advance, Tick
  <2> QED
    BY <1>1, <2>1, NextFireOfEffect
<1> QED
  BY <1>1, <1>3, <1>4, <1>5, <1>6, <1>7

\* Revisions of one creation only grow, and a new creation is of this edit.
LEMMA RevisionSteps ==
  ASSUME TypeInv, LedgerInv, [Next]_vars, NEW r \in Rules, rules'[r] # NoRule
  PROVE  /\ rules'[r] \in Rule
         /\ rules[r] # NoRule => rules[r] \in Rule
         /\ \/ /\ rules[r] # NoRule /\ rules'[r].made = rules[r].made
               /\ rules'[r].rev = rules[r].rev \/ rules'[r].rev = rules[r].rev + 1
            \/ rules'[r].made = edits + 1 /\ edits' = edits + 1
<1>1. rules \in [Rules -> Rule \cup {NoRule}] /\ edits \in Nat /\ now \in Nat
  BY DEF TypeInv, TypeOK, Time
<1>2. CASE rules'[r] = rules[r]
  BY <1>1, <1>2
<1>3. CASE Created(r)
  BY <1>1, <1>3, NewRuleIsFresh DEF Created
<1>4. CASE Edited(r)
  BY <1>1, <1>4, UpdatedRuleKeeps DEF Edited
<1>5. CASE Advanced(r)
  BY <1>5, AdvancedFacts, WrittenRule, NullsAssumption
<1> QED
  BY <1>2, <1>3, <1>4, <1>5, RuleSteps DEF Dropped

LEMMA KnownKept ==
  ASSUME TypeInv, LedgerInv, [Next]_vars, NEW r \in Rules, NEW made \in Nat, NEW rev \in Nat,
         Known(r, made, rev)
  PROVE  Known(r, made, rev)'
<1>1. made <= edits'
  BY NowNotBefore DEF Known
<1>2. ASSUME rules'[r] # NoRule, rules'[r].made = made PROVE rev <= rules'[r].rev
  <2>1. rules'[r].rev \in Nat /\ (rules[r] # NoRule => rules[r].rev \in Nat)
    BY <1>2, RevisionSteps, FieldsOfRule
  <2>2. rules'[r].made # edits + 1
    BY <1>2, NowNotBefore DEF Known
  <2> QED
    BY <1>2, <2>1, <2>2, RevisionSteps DEF Known
<1> QED
  BY <1>1, <1>2 DEF Known

LEMMA NextAfterKept ==
  ASSUME TypeInv, LedgerInv, [Next]_vars, NEW r \in Rules, NEW t \in Nat, t <= now,
         NextAfter(r, t), Advanced(r) => t <= TheFire("tick").time
  PROVE  NextAfter(r, t)'
<1> SUFFICES ASSUME rules'[r] # NoRule, rules'[r].next # NoFire PROVE rules'[r].next > t
  BY DEF NextAfter
<1>1. rules \in [Rules -> Rule \cup {NoRule}] /\ edits \in Nat /\ now \in Nat
  BY DEF TypeInv, TypeOK, Time
<1>2. rules'[r].next \in Nat
  BY RevisionSteps, FieldsOfRule
<1>3. CASE rules'[r] = rules[r]
  BY <1>3 DEF NextAfter
<1>4. CASE Created(r)
  <2>1. rules'[r].next > now
    BY <1>1, <1>4, NewRuleIsFresh DEF Created
  <2> QED
    BY <1>1, <1>2, <2>1
<1>5. CASE Edited(r)
  <2>1. rules'[r].next > now
    BY <1>1, <1>5, UpdatedRuleKeeps DEF Edited
  <2> QED
    BY <1>1, <1>2, <2>1
<1>6. CASE Advanced(r)
  <2>1. rules'[r].next > TheFire("tick").time /\ TheFire("tick").time \in Nat
    BY <1>6, AdvancedFacts DEF Fire
  <2> QED
    BY <1>2, <1>6, <2>1
<1> QED
  BY <1>3, <1>4, <1>5, <1>6, RuleSteps DEF Dropped

\* A retry that is pending after a step was so before, or the tick has just set it.
LEMMA PendingSteps ==
  ASSUME TypeInv, LedgerInv, [Next]_vars, NEW r \in Rules, Pending(r)'
  PROVE  \/ /\ Pending(r) /\ rules'[r].retry = rules[r].retry
            /\ rules'[r].rev = rules[r].rev /\ rules'[r].made = rules[r].made
         \/ /\ Advanced(r) /\ Tick.outcome = "failed"
            /\ rules'[r].retry.orig = TheFire("tick").time
            /\ rules'[r].retry.attempt = TheFire("tick").attempt + 1
<1>0. rules'[r] # NoRule /\ rules'[r].retry # NoRetry
  BY DEF Pending
<1>1. rules \in [Rules -> Rule \cup {NoRule}] /\ edits \in Nat /\ now \in Nat
  BY DEF TypeInv, TypeOK, Time
<1>2. CASE rules'[r] = rules[r]
  BY <1>0, <1>2 DEF Pending
<1>3. CASE Created(r)
  BY <1>0, <1>1, <1>3, NewRuleIsFresh DEF Created
<1>4. CASE Edited(r)
  <2>1. rules[r] \in Rule
    BY <1>1, <1>4 DEF Edited
  <2>2. /\ rules'[r].retry = rules[r].retry /\ rules'[r].rev = rules[r].rev
        /\ rules'[r].made = rules[r].made /\ rules[r] # NoRule
    BY <1>0, <1>1, <1>4, <2>1, UpdatedRuleKeeps DEF Edited
  <2> QED
    BY <1>0, <2>2 DEF Pending
<1>5. CASE Advanced(r)
  <2>1. rules[r] # NoRule
    BY <1>5 DEF Advanced
  <2> QED
    BY <1>0, <1>5, <2>1, AdvancedFacts DEF Pending
<1> QED
  BY <1>0, <1>2, <1>3, <1>4, <1>5, RuleSteps DEF Dropped

-----------------------------------------------------------------------------
(***************************************************************************)
(* Every step keeps the invariant, conjunct by conjunct.                   *)
(***************************************************************************)
LEMMA FiresOfTick ==
  ASSUME TypeInv, FiresInv, Tick.pc \in OnRule
  PROVE  /\ Tick.rule \in Rules /\ Tick.fires \in Seq(Fire) /\ Len(Tick.fires) \in Nat
         /\ \A n \in 1..Len(Tick.fires) :
              /\ Tick.fires[n] \in Fire /\ Tick.fires[n].kind \in {"fire", "retry"}
              /\ Ahead(Tick.fires[n])
         /\ Tick.fires # <<>> => /\ TheFire("tick") = Tick.fires[1] /\ 1 \in 1..Len(Tick.fires)
                                /\ TheFire("tick") \in Fire
                                /\ TheFire("tick").kind \in {"fire", "retry"}
                                /\ Ahead(TheFire("tick"))
         /\ Tick.pc \in AtFire => Tick.fires # <<>> /\ Tick.snap \in Rule
<1>1. /\ Tick.rule \in Rules /\ Tick.fires \in Seq(Fire)
      /\ Tick.pc \in AtFire => Tick.fires # <<>> /\ Tick.snap \in Rule
      /\ FiresOf("tick", Tick.fires)
  BY FieldsOfProc DEF TypeInv, TypeOK, Shaped, Tick, Procs
<1>2. ASSUME NEW n \in 1..Len(Tick.fires)
      PROVE  /\ Tick.fires[n] \in Fire /\ Tick.fires[n].kind \in {"fire", "retry"}
             /\ Ahead(Tick.fires[n])
  <2>1. Tick.fires[n] \in Fire
    BY <1>1
  <2>2. Tick.fires[n].kind # "manual"
    BY <1>1 DEF FiresOf
  <2>3. Tick.fires[n].kind \in {"fire", "retry", "manual"}
    BY <2>1 DEF Fire
  <2> QED
    BY <2>1, <2>2, <2>3 DEF FiresInv
<1>3. Tick.fires # <<>> => TheFire("tick") = Tick.fires[1] /\ 1 \in 1..Len(Tick.fires)
  BY <1>1 DEF TheFire, Tick
<1> QED
  BY <1>1, <1>2, <1>3

\* What the advanced rule's fire is not behind.
LEMMA AdvancedAhead ==
  ASSUME TypeInv, LedgerInv, RetryInv, NEW r \in Rules, Advanced(r)
  PROVE  /\ TheFire("tick").time \in Nat /\ TheFire("tick").time <= now
         /\ \A k \in RetriesOf(r) : k.time \in Nat /\ k.time <= TheFire("tick").time
         /\ Pending(r) => rules[r].retry.orig \in Nat /\ rules[r].retry.orig <= TheFire("tick").time
<1>1. Tick.pc \in AtFire /\ Tick.pc \in OnRule /\ Tick.rule = r
  BY AdvancedFacts DEF AtFire, Holding, Settling, OnRule
<1>2. /\ TheFire("tick") \in Fire /\ TheFire("tick").kind \in {"fire", "retry"}
      /\ Ahead(TheFire("tick"))
  BY <1>1, FiresOfTick DEF RetryInv
<1>3. TheFire("tick").time \in Nat
  BY <1>2 DEF Fire
<1>4. \A k \in RetriesOf(r) : k.time \in Nat
  BY DEF RetriesOf, TypeInv, TypeOK, Key
<1>5. Pending(r) => rules[r].retry.orig \in Nat
  BY AdvancedFacts, FieldsOfRule DEF Retry
<1> QED
  BY <1>1, <1>2, <1>3, <1>4, <1>5 DEF Ahead

LEMMA KeysInvKept ==
  ASSUME TypeInv, LedgerInv, RetryInv, [Next]_vars
  PROVE  KeysInv'
<1> SUFFICES ASSUME NEW k \in DOMAIN receipts'
             PROVE  /\ k.kind = "fire" => k.attempt = 0
                    /\ k.kind = "retry" =>
                         /\ k.time <= now'
                         /\ NextAfter(k.rule, k.time)'
                         /\ Behind(k.rule, k.time, k.attempt)'
  BY DEF KeysInv
<1>1. CASE k \in DOMAIN receipts
  <2>1. k.rule \in Rules /\ k.time \in Nat
    BY <1>1 DEF TypeInv, TypeOK, Key
  <2>2. k.kind = "fire" => k.attempt = 0
    BY <1>1 DEF RetryInv, KeysInv
  <2> SUFFICES ASSUME k.kind = "retry"
               PROVE  k.time <= now' /\ NextAfter(k.rule, k.time)' /\ Behind(k.rule, k.time, k.attempt)'
    BY <2>2
  <2>3. k.time <= now /\ NextAfter(k.rule, k.time) /\ Behind(k.rule, k.time, k.attempt)
    BY <1>1 DEF RetryInv, KeysInv
  <2>4. Advanced(k.rule) => k.time <= TheFire("tick").time
    BY <1>1, <2>1, AdvancedAhead DEF RetriesOf
  <2>5. PICK r, t, attempt :
          r \in Rules /\ t \in Nat /\ r = k.rule /\ t = k.time /\ attempt = k.attempt
    BY <2>1
  <2>6. NextAfter(r, t)'
    BY <2>3, <2>4, <2>5, NextAfterKept
  <2>7. Behind(r, t, attempt)'
    BY <2>3, <2>5, BehindStays
  <2> QED
    BY <2>1, <2>3, <2>5, <2>6, <2>7, NowNotBefore DEF NextAfter, Behind
<1>2. CASE k \notin DOMAIN receipts /\ k.kind # "manual"
  <2>1. Claim("tick") /\ Claims("tick") /\ k = TheKey("tick")
    BY <1>2, NewScheduledKeys
  <2>2. Tick.pc \in AtFire /\ Tick.pc \in OnRule
    BY <2>1 DEF Claim, Tick, AtFire, OnRule
  <2>3. Ahead(TheFire("tick")) /\ Tick.rule \in Rules
    BY <2>2, FiresOfTick DEF RetryInv
  <2>4. PICK r, f : r \in Rules /\ r = Tick.rule /\ f = TheFire("tick")
    BY <2>3
  <2>5. k.rule = r /\ k.kind = f.kind /\ k.time = f.time /\ k.attempt = f.attempt
    BY <2>1, <2>4 DEF TheKey, Tick
  <2>6. UNCHANGED <<now, rules>>
    BY <2>1 DEF Claim, clockVars
  <2>7. f.kind = "retry" => f.time <= now /\ NextAfter(r, f.time) /\ Behind(r, f.time, f.attempt)
    BY <2>3, <2>4 DEF Ahead
  <2>8. f.kind = "retry" => Behind(r, f.time, f.attempt)'
    BY <2>7, BehindStays
  <2>9. f.kind = "retry" => NextAfter(r, f.time)'
    BY <2>6, <2>7 DEF NextAfter
  <2>10. f.kind = "fire" => f.attempt = 0
    BY <2>3, <2>4 DEF Ahead
  <2> QED
    BY <2>5, <2>6, <2>7, <2>8, <2>9, <2>10 DEF Behind, NextAfter
<1> QED
  BY <1>1, <1>2

LEMMA PendingInvKept ==
  ASSUME TypeInv, LedgerInv, RetryInv, [Next]_vars
  PROVE  PendingInv'
<1> SUFFICES ASSUME NEW r \in Rules, Pending(r)', NEW t, NEW attempt, NEW made, NEW k,
                    t = rules'[r].retry.orig, attempt = rules'[r].retry.attempt,
                    made = rules'[r].made, k = RetryKey(r, t, attempt)'
             PROVE  /\ t <= now'
                    /\ Behind(r, t, attempt)'
                    /\ NextAfter(r, t)'
                    /\ \A l \in RetriesOf(r)' : l.time <= t
                    /\ Retriable(k, made)'
  BY DEF PendingInv, RetryKey, Retriable, Rerun, SameOccurrence
<1>1. CASE /\ Pending(r) /\ rules'[r].retry = rules[r].retry
           /\ rules'[r].rev = rules[r].rev /\ rules'[r].made = rules[r].made
  <2>1. /\ t <= now /\ Behind(r, t, attempt) /\ NextAfter(r, t)
        /\ \A l \in RetriesOf(r) : l.time <= t
        /\ k = RetryKey(r, t, attempt) /\ Retriable(k, made)
    BY <1>1 DEF RetryInv, PendingInv, RetryKey
  <2>2. rules[r] \in Rule
    BY <1>1 DEF Pending, TypeInv, TypeOK
  <2>3. t \in Nat
    BY <1>1, <2>2, FieldsOfRule DEF Retry
  <2>4. t <= now'
    BY <2>1, <2>3, NowNotBefore
  <2>5. NextAfter(r, t)'
    <3>1. Advanced(r) => t <= TheFire("tick").time
      BY <1>1, AdvancedAhead
    <3> QED
      BY <2>1, <2>3, <3>1, NextAfterKept
  <2>6. Behind(r, t, attempt)'
    BY <2>1, BehindStays
  <2>7. ASSUME NEW l \in RetriesOf(r)' PROVE l.time <= t
    <3>1. l \in DOMAIN receipts' /\ l.kind = "retry" /\ l.rule = r
      BY DEF RetriesOf
    <3>2. CASE l \in DOMAIN receipts
      BY <2>1, <3>1, <3>2 DEF RetriesOf
    <3>3. CASE l \notin DOMAIN receipts
      <4>1. Claims("tick") /\ l = TheKey("tick")
        BY <3>1, <3>3, NewScheduledKeys
      <4>2. Tick.pc \in OnRule /\ Tick.pc \in AtFire /\ Tick.rule = r
            /\ TheFire("tick").kind = "retry" /\ TheFire("tick").time = l.time
        BY <3>1, <4>1 DEF Claims, OnRule, AtFire, Tick, TheKey
      <4>3. Ahead(TheFire("tick"))
        BY <4>2, FiresOfTick DEF RetryInv
      <4>4. rules[r].retry.orig = l.time
        BY <1>1, <4>2, <4>3 DEF Ahead
      <4> QED
        BY <1>1, <2>3, <4>4
    <3> QED
      BY <3>2, <3>3
  <2>8. Retriable(k, made)'
    <3>1. ASSUME NEW i \in RunIds, Admits("tick", i), SameOccurrence(TheKey("tick"), k),
                 TheKey("tick").rev = k.rev
          PROVE  TheKey("tick") = k
      <4>1. Tick.pc = "admit"
        BY <3>1 DEF Admits, Tick
      <4>2. Tick.pc \in OnRule /\ Tick.pc \in AtFire
        BY <4>1 DEF OnRule, AtFire, Holding
      <4>3. Ahead(TheFire("tick")) /\ TheFire("tick").kind \in {"fire", "retry"}
            /\ TheFire("tick") \in Fire
        BY <4>2, FiresOfTick DEF RetryInv
      <4>4. Tick.rule = r /\ TheFire("tick").time = t
        BY <2>1, <3>1 DEF SameOccurrence, TheKey, RetryKey, Tick
      <4>5. TheFire("tick").kind = "retry" /\ TheFire("tick").attempt = attempt
        BY <1>1, <2>3, <4>3, <4>4 DEF Ahead
      <4>6. Tick.snap.rev = k.rev
        BY <3>1 DEF TheKey, Tick
      <4> QED
        BY <2>1, <4>4, <4>5, <4>6 DEF TheKey, RetryKey, Tick
    <3> QED
      BY <2>1, <3>1, RetriableKept
  <2> QED
    BY <2>4, <2>5, <2>6, <2>7, <2>8
<1>2. CASE /\ Advanced(r) /\ Tick.outcome = "failed"
           /\ rules'[r].retry.orig = TheFire("tick").time
           /\ rules'[r].retry.attempt = TheFire("tick").attempt + 1
  <2>1. /\ Tick.rule = r /\ Tick.snap = rules[r] /\ Tick.pc \in Holding
        /\ TheFire("tick").kind \in {"fire", "retry"}
        /\ TheKey("tick") \in DOMAIN receipts /\ receipts[TheKey("tick")] = "failed"
        /\ UNCHANGED <<receipts, runs, now>>
        /\ rules'[r].rev = rules[r].rev /\ rules'[r].made = rules[r].made
        /\ rules'[r].next # NoFire => rules'[r].next > TheFire("tick").time
    BY <1>2, AdvancedFacts DEF Holding, Settling
  <2>2. /\ t = TheFire("tick").time /\ attempt = TheFire("tick").attempt + 1
        /\ t \in Nat /\ t <= now /\ \A l \in RetriesOf(r) : l.time <= t
    BY <1>2, AdvancedAhead
  <2>3. /\ TheKey("tick").rule = r /\ TheKey("tick").time = t
        /\ TheKey("tick").kind # "manual" /\ TheKey("tick").attempt + 1 = attempt
        /\ TheKey("tick").rev = rules[r].rev
    BY <2>1, <2>2 DEF TheKey, Tick
  <2>4. Behind(r, t, attempt)'
    BY <2>1, <2>3 DEF Behind
  <2>5. NextAfter(r, t)'
    BY <2>1, <2>2 DEF NextAfter
  <2>6. \A l \in RetriesOf(r)' : l.time <= t
    BY <2>1, <2>2 DEF RetriesOf
  <2>7. Retriable(k, made)'
    <3> SUFFICES ASSUME NEW i \in Used, Rerun(k, made, i)
                 PROVE  receipts[runs[i].key] = "failed" /\ k.kind = "retry"
      BY <2>1 DEF Retriable, Rerun, Used
    <3>1. /\ k.kind = "retry" /\ k.rule = r /\ k.time = t /\ k.rev = rules[r].rev
          /\ made = Tick.snap.made
      BY <2>1 DEF RetryKey
    <3>2. Retriable(TheKey("tick"), Tick.snap.made)
      BY <2>1 DEF RetryInv, TickInv
    <3>3. CASE runs[i].key = TheKey("tick")
      BY <2>1, <3>1, <3>3
    <3>4. CASE runs[i].key # TheKey("tick")
      <4>1. Rerun(TheKey("tick"), Tick.snap.made, i)
        BY <2>3, <3>1, <3>4 DEF Rerun, SameOccurrence
      <4> QED
        BY <3>1, <3>2, <4>1 DEF Retriable
    <3> QED
      BY <3>3, <3>4
  <2> QED
    BY <2>1, <2>2, <2>4, <2>5, <2>6, <2>7
<1> QED
  BY <1>1, <1>2, PendingSteps

LEMMA RevisionsInvKept ==
  ASSUME TypeInv, LedgerInv, RetryInv, [Next]_vars
  PROVE  RevisionsInv'
<1> DEFINE Then(r, made, rev) ==
             /\ made <= edits'
             /\ rules'[r] # NoRule /\ rules'[r].made = made => rev <= rules'[r].rev
<1>1. ASSUME NEW r \in Rules, rules'[r] # NoRule PROVE rules'[r].made <= edits'
  <2>1. rules'[r].made = edits' \/ (rules[r] # NoRule /\ rules'[r].made = rules[r].made)
    BY <1>1, RevisionSteps
  <2>2. rules'[r].made \in Nat
    BY <1>1, RevisionSteps, FieldsOfRule
  <2> QED
    BY <2>1, <2>2, NowNotBefore DEF RetryInv, RevisionsInv
<1>2. ASSUME Tick.pc \in AtFire, NEW r, NEW made, NEW rev,
             r = Tick.rule, made = Tick.snap.made, rev = Tick.snap.rev
      PROVE  r \in Rules /\ Then(r, made, rev)
  <2>1. r \in Rules /\ made \in Nat /\ rev \in Nat
    BY <1>2, FiresOfTick, FieldsOfRule DEF RetryInv, OnRule
  <2>2. Known(r, made, rev)
    BY <1>2 DEF RetryInv, RevisionsInv
  <2> QED
    BY <2>1, <2>2, KnownKept DEF Known
<1>3. ASSUME NEW i \in Used', runs'[i].key.kind # "manual"
      PROVE  Then(runs'[i].key.rule, runs'[i].made, runs'[i].key.rev)
  <2>1. CASE i \in Used /\ runs'[i].key = runs[i].key /\ runs'[i].made = runs[i].made
    <3>1. runs[i].key \in Key /\ runs[i] \in RunRow
      BY <2>1, UsedHasReceipt DEF TypeInv, TypeOK
    <3>2. PICK r, made, rev : r = runs[i].key.rule /\ made = runs[i].made /\ rev = runs[i].key.rev
      OBVIOUS
    <3>3. r \in Rules /\ made \in Nat /\ rev \in Nat
      BY <3>1, <3>2 DEF Key, RunRow
    <3>4. Known(r, made, rev)
      BY <1>3, <2>1, <3>2 DEF RetryInv, RevisionsInv
    <3>5. Then(r, made, rev)
      BY <3>3, <3>4, KnownKept DEF Known
    <3> QED
      BY <2>1, <3>2, <3>5
  <2>2. CASE /\ Admits("tick", i)
             /\ runs'[i].key = TheKey("tick") /\ runs'[i].made = Tick.snap.made
    <3>1. Tick.pc \in AtFire
      BY <2>2 DEF Admits, Tick, AtFire, Holding
    <3>2. PICK r, made, rev : r = Tick.rule /\ made = Tick.snap.made /\ rev = Tick.snap.rev
      OBVIOUS
    <3>3. Then(r, made, rev)
      BY <1>2, <3>1, <3>2
    <3>4. runs'[i].key.rule = r /\ runs'[i].made = made /\ runs'[i].key.rev = rev
      BY <2>2, <3>2 DEF TheKey, Tick
    <3> QED
      BY <3>3, <3>4
  <2> QED
    BY <1>3, <2>1, <2>2, ScheduledRows
<1>4. ASSUME proc'["tick"].pc \in AtFire
      PROVE  Then(proc'["tick"].rule, proc'["tick"].snap.made, proc'["tick"].snap.rev)
  <2>1. CASE Reads
    <3>1. PICK r : r = Tick.rule /\ r \in Rules
      BY FieldsOfProc DEF TypeInv, TypeOK, Tick, Procs
    <3>2. /\ rules'[r] # NoRule /\ proc'["tick"].rule = r /\ proc'["tick"].snap = rules'[r]
          /\ rules'[r].rev \in Nat
      BY <2>1, <3>1, RevisionSteps, FieldsOfRule DEF Reads, StoresStay
    <3> QED
      BY <1>1, <3>1, <3>2
  <2>2. CASE /\ Tick.pc \in AtFire /\ proc'["tick"].rule = Tick.rule
             /\ proc'["tick"].snap = Tick.snap
    <3>1. PICK r, made, rev : r = Tick.rule /\ made = Tick.snap.made /\ rev = Tick.snap.rev
      OBVIOUS
    <3>2. Then(r, made, rev)
      BY <1>2, <2>2, <3>1
    <3> QED
      BY <2>2, <3>1, <3>2
  <2>3. CASE proc'["tick"] = Tick
    BY <1>4, <2>2, <2>3
  <2>4. CASE Claim("tick") /\ Claims("tick")
    BY <2>2, <2>4, GotoEffect DEF Claims, Tick, AtFire, Procs
  <2>5. CASE Stands
    BY <2>2, <2>5 DEF Stands, AtFire
  <2> QED
    BY <1>4, <2>1, <2>3, <2>4, <2>5, TickSteps
       DEF TickMoves, Collects, Passes, OnRule, AtFire, Holding, Settling
<1> QED
  BY <1>1, <1>3, <1>4 DEF RevisionsInv, Tick, Known

LEMMA AheadKept ==
  ASSUME TypeInv, LedgerInv, RetryInv, [Next]_vars, Tick.pc \in OnRule,
         NEW n \in 1..Len(Tick.fires), NEW f, f = Tick.fires[n],
         proc'["tick"].rule = Tick.rule,
         Advanced(Tick.rule) => n > 1
  PROVE  Ahead(f)'
<1>1. PICK r : r = Tick.rule
  OBVIOUS
<1>2. /\ f \in Fire /\ Ahead(f) /\ r \in Rules /\ Len(Tick.fires) \in Nat
      /\ f.time \in Nat
      /\ Tick.fires # <<>> => TheFire("tick") = Tick.fires[1]
      /\ InOrder(Tick.fires)
      /\ f.kind = "retry" => Len(Tick.fires) = 1
      /\ Tick.fires # <<>> /\ TheFire("tick").kind = "retry" => Len(Tick.fires) = 1
  BY <1>1, FiresOfTick DEF RetryInv, FiresInv, Fire
<1>3. Len(Tick.fires) = 1 => f = TheFire("tick") /\ n = 1
  BY <1>2
<1>4. f.time <= now'
  BY <1>2, NowNotBefore DEF Ahead
<1>5. ASSUME NEW k \in RetriesOf(r)', k \notin RetriesOf(r)
      PROVE  k.time = f.time /\ f.kind = "retry"
  <2>1. Claims("tick") /\ k = TheKey("tick") /\ k.kind = "retry"
    BY <1>5, NewScheduledKeys DEF RetriesOf
  <2>2. TheFire("tick").kind = "retry" /\ TheFire("tick").time = k.time
    BY <2>1 DEF TheKey
  <2>3. Tick.fires # <<>>
    BY <2>1 DEF Claims, TypeInv, Shaped, AtFire, Tick, Procs
  <2> QED
    BY <1>2, <1>3, <2>2, <2>3
<1>6. ASSUME f.kind = "fire"
      PROVE  /\ f.attempt = 0
             /\ \A k \in RetriesOf(r)' : k.time < f.time
             /\ Pending(r)' => rules'[r].retry.orig < f.time
  <2>1. f.attempt = 0 /\ \A k \in RetriesOf(r) : k.time < f.time
    BY <1>1, <1>2, <1>6 DEF Ahead
  <2>2. ASSUME Pending(r), rules'[r].retry = rules[r].retry
        PROVE  rules'[r].retry.orig < f.time
    BY <1>1, <1>2, <1>6, <2>2 DEF Ahead
  <2>3. ASSUME Advanced(r), rules'[r].retry.orig = TheFire("tick").time
        PROVE  rules'[r].retry.orig < f.time
    <3>1. n > 1 /\ Tick.fires # <<>> /\ 1 \in 1..Len(Tick.fires)
      BY <1>1, <1>2, <2>3
    <3> QED
      BY <1>2, <2>3, <3>1 DEF InOrder
  <2> QED
    BY <1>2, <1>5, <1>6, <2>1, <2>2, <2>3, PendingSteps
<1>7. ASSUME f.kind = "retry"
      PROVE  /\ Behind(r, f.time, f.attempt)'
             /\ \A k \in RetriesOf(r)' : k.time <= f.time
             /\ NextAfter(r, f.time)'
             /\ Pending(r)' => rules'[r].retry.orig = f.time /\ rules'[r].retry.attempt = f.attempt
  <2>1. ~Advanced(r)
    BY <1>1, <1>2, <1>3, <1>7
  <2>2. PICK t, attempt : t = f.time /\ attempt = f.attempt
    OBVIOUS
  <2>3. /\ t \in Nat /\ t <= now /\ Behind(r, t, attempt) /\ NextAfter(r, t)
        /\ \A k \in RetriesOf(r) : k.time <= t
        /\ Pending(r) => rules[r].retry.orig = f.time /\ rules[r].retry.attempt = f.attempt
    BY <1>1, <1>2, <1>7, <2>2 DEF Ahead
  <2>4. Behind(r, t, attempt)'
    BY <2>3, BehindStays
  <2>5. NextAfter(r, t)'
    BY <1>2, <2>1, <2>3, NextAfterKept
  <2>6. \A k \in RetriesOf(r)' : k.time <= f.time
    BY <1>2, <1>5, <2>2, <2>3
  <2>7. Pending(r)' => rules'[r].retry.orig = f.time /\ rules'[r].retry.attempt = f.attempt
    BY <1>2, <2>1, <2>3, PendingSteps
  <2> QED
    BY <2>2, <2>4, <2>5, <2>6, <2>7 DEF Behind, NextAfter
<1> QED
  BY <1>1, <1>4, <1>6, <1>7 DEF Ahead, Tick, RetriesOf, Behind, NextAfter, Pending

LEMMA CollectedAhead ==
  ASSUME TypeInv, RetryInv, Collects
  PROVE  FiresInv'
<1>1. PICK r, fires : /\ r = proc'["tick"].rule /\ fires = proc'["tick"].fires /\ r \in Rules
                      /\ fires = IF rules[r] = NoRule THEN <<>>
                                 ELSE CollectDueFires(rules[r], Tick.at, Tick.startup)
  BY DEF Collects
<1>2. /\ Tick.at \in Nat /\ Tick.startup \in BOOLEAN /\ now \in Nat /\ Tick.at <= now
      /\ rules[r] # NoRule => rules[r] \in Rule
  BY <1>1, FieldsOfProc DEF TypeInv, TypeOK, Time, Tick, Procs, RetryInv, TickInv
<1> DEFINE Fits(f) ==
             /\ f.time <= now
             /\ f.kind = "fire" =>
                  /\ f.attempt = 0
                  /\ \A k \in RetriesOf(r) : k.time < f.time
                  /\ Pending(r) => rules[r].retry.orig < f.time
             /\ f.kind = "retry" =>
                  /\ Behind(r, f.time, f.attempt)
                  /\ \A k \in RetriesOf(r) : k.time <= f.time
                  /\ NextAfter(r, f.time)
                  /\ Pending(r) => /\ rules[r].retry.orig = f.time
                                   /\ rules[r].retry.attempt = f.attempt
           Goal == /\ \A n \in 1..Len(fires) : Fits(fires[n])
                   /\ \A n \in 1..Len(fires) : fires[n].kind = "retry" => Len(fires) = 1
                   /\ InOrder(fires)
<1>3. ASSUME fires = <<>> PROVE Goal
  BY <1>3 DEF InOrder
<1>4. ASSUME fires # <<>>, rules[r].retry # NoRetry PROVE Goal
  <2>1. fires = <<PendingFire(rules[r])>> /\ Pending(r)
    BY <1>1, <1>2, <1>4, CollectedFires DEF Pending
  <2>2. Fits(PendingFire(rules[r]))
    BY <1>1, <2>1 DEF PendingFire, RetryInv, PendingInv
  <2> HIDE DEF Fits
  <2> QED
    BY <2>1, <2>2 DEF InOrder
<1>5. ASSUME fires # <<>>, rules[r].retry = NoRetry PROVE Goal
  <2>1. /\ rules[r] # NoRule /\ rules[r].next # NoFire
        /\ \A n \in 1..Len(fires) :
             /\ fires[n].kind = "fire" /\ fires[n].attempt = 0
             /\ fires[n].time >= rules[r].next /\ fires[n].time <= Tick.at
        /\ InOrder(fires)
    BY <1>1, <1>2, <1>5, CollectedFires
  <2>2. fires \in Seq(Fire) /\ rules[r].next \in Nat
    <3>1. rules[r] \in Rule /\ fires = CollectDueFires(rules[r], Tick.at, Tick.startup)
      BY <1>1, <1>2, <2>1
    <3>2. CollectDueFires(rules[r], Tick.at, Tick.startup) \in Seq(Fire)
      BY <1>2, <3>1, DueFires
    <3> QED
      BY <3>1, <3>2, FieldsOfRule
  <2>3. \A k \in RetriesOf(r) : k.time < rules[r].next /\ k.time \in Nat
    BY <2>1 DEF RetriesOf, RetryInv, KeysInv, NextAfter, TypeInv, TypeOK, Key
  <2>4. ASSUME NEW n \in 1..Len(fires) PROVE Fits(fires[n])
    <3>1. fires[n] \in Fire
      BY <2>2
    <3>2. fires[n].time \in Nat
      BY <3>1 DEF Fire
    <3> QED
      BY <1>2, <1>5, <2>1, <2>2, <2>3, <3>2 DEF Pending
  <2> HIDE DEF Fits
  <2> QED
    BY <2>1, <2>4
<1>6. Goal
  BY <1>3, <1>4, <1>5
<1>7. UNCHANGED <<now, rules, receipts>>
  BY DEF Collects, StoresStay
<1>8. \A f : Fits(f) => Ahead(f)'
  BY <1>1, <1>7 DEF Ahead, Tick, RetriesOf, Pending, Behind, NextAfter
<1> HIDE DEF Fits
<1> QED
  BY <1>1, <1>6, <1>8 DEF FiresInv, Tick, InOrder

LEMMA FiresInvKept ==
  ASSUME TypeInv, LedgerInv, RetryInv, [Next]_vars
  PROVE  FiresInv'
<1>1. CASE /\ Tick.pc \in OnRule
           /\ proc'["tick"].rule = Tick.rule /\ proc'["tick"].fires = Tick.fires
           /\ ~(Tick.pc = "advance" /\ proc'["tick"].pc = "fires")
  <2>1. \A n \in 1..Len(Tick.fires) : Ahead(Tick.fires[n])'
    <3> SUFFICES ASSUME NEW n \in 1..Len(Tick.fires), NEW f, f = Tick.fires[n] PROVE Ahead(f)'
      BY <1>1 DEF Ahead, Tick
    <3>1. Tick.rule \in Rules
      BY <1>1, FiresOfTick DEF RetryInv
    <3>2. ~Advanced(Tick.rule)
      BY <1>1, <3>1, AdvancedFacts
    <3> QED
      BY <1>1, <3>2, AheadKept
  <2> QED
    BY <1>1, <2>1 DEF RetryInv, FiresInv, Tick, InOrder
<1>2. CASE proc'["tick"] = Tick
  BY <1>1, <1>2 DEF FiresInv, Tick
<1>3. CASE Reads
  BY <1>1, <1>3 DEF Reads, OnRule
<1>4. CASE Claim("tick") /\ Claims("tick")
  BY <1>1, <1>4, GotoEffect DEF Claims, Tick, OnRule, AtFire, Procs
<1>5. CASE Stands
  BY <1>1, <1>5 DEF Stands, OnRule, AtFire, Holding, Settling
<1>6. CASE Passes
  <2>1. /\ Tick.pc \in OnRule /\ Tick.fires # <<>> /\ proc'["tick"].rule = Tick.rule
        /\ proc'["tick"].fires = Tail(Tick.fires)
    BY <1>6 DEF Passes
  <2>2. Tick.fires \in Seq(Fire) /\ Len(Tick.fires) \in Nat
    BY <2>1, FiresOfTick DEF RetryInv
  <2>3. PICK fires : fires = proc'["tick"].fires
    OBVIOUS
  <2>4. /\ Len(fires) = Len(Tick.fires) - 1
        /\ \A n \in 1..Len(fires) : fires[n] = Tick.fires[n + 1] /\ n + 1 \in 1..Len(Tick.fires)
    BY <2>1, <2>2, <2>3
  <2>5. ASSUME NEW n \in 1..Len(fires), NEW f, f = fires[n] PROVE Ahead(f)'
    <3>1. f = Tick.fires[n + 1] /\ n + 1 \in 1..Len(Tick.fires) /\ n + 1 > 1
      BY <2>2, <2>4, <2>5
    <3> QED
      BY <2>1, <3>1, AheadKept
  <2>6. \A n \in 1..Len(fires) : fires[n].kind # "retry"
    BY <2>1, <2>2, <2>4 DEF RetryInv, FiresInv
  <2>7. InOrder(fires)
    BY <2>1, <2>2, <2>4 DEF RetryInv, FiresInv, InOrder
  <2>8. \A n \in 1..Len(fires) : Ahead(fires[n])'
    BY <2>5 DEF Ahead
  <2> QED
    BY <2>3, <2>6, <2>7, <2>8 DEF FiresInv, Tick, InOrder, Ahead
<1>7. CASE Collects
  BY <1>7, CollectedAhead
<1>8. CASE proc'["tick"].pc \notin OnRule
  BY <1>8 DEF FiresInv, Tick
<1> QED
  BY <1>2, <1>3, <1>4, <1>5, <1>6, <1>7, <1>8, TickSteps DEF TickMoves

\* A retry that the tick has yet to claim.
LEMMA WaitingRetry ==
  ASSUME TypeInv, LedgerInv, RetryInv, [Next]_vars, Tick.pc = "fires",
         NEW r, NEW t, NEW attempt, r = Tick.rule,
         rules'[r] # NoRule,
         rules[r] # NoRule => Retriable(RetryKey(r, t, attempt), rules[r].made)
  PROVE  Retriable(RetryKey(r, t, attempt), rules[r].made)'
<1>1. PICK k, made : k = RetryKey(r, t, attempt)' /\ made = rules'[r].made
  OBVIOUS
<1>2. ASSUME NEW i PROVE ~Admits("tick", i)
  BY DEF Admits, Tick
<1>3. r \in Rules
  BY FieldsOfProc DEF TypeInv, TypeOK, Tick, Procs
<1>4. rules'[r] \in Rule /\ (rules[r] # NoRule => rules[r] \in Rule)
  BY <1>3, RevisionSteps
<1>5. CASE rules[r] # NoRule /\ rules'[r].rev = rules[r].rev /\ rules'[r].made = rules[r].made
  <2>1. k = RetryKey(r, t, attempt) /\ made = rules[r].made
    BY <1>1, <1>5 DEF RetryKey
  <2>2. Retriable(k, made)'
    BY <1>2, <1>5, <2>1, RetriableKept
  <2> QED
    BY <1>1, <2>2 DEF Retriable, Rerun, SameOccurrence
<1>6. CASE ~(rules[r] # NoRule /\ rules'[r].rev = rules[r].rev /\ rules'[r].made = rules[r].made)
  <2>1. \/ rules[r] # NoRule /\ made = rules[r].made /\ k.rev = rules[r].rev + 1
        \/ made = edits + 1
    BY <1>1, <1>3, <1>6, RevisionSteps DEF RetryKey
  <2>2. ASSUME NEW i \in Used', Rerun(k, made, i)' PROVE FALSE
    <3>1. /\ k.rule = r /\ runs'[i].key.kind # "manual" /\ runs'[i].key.rule = r
          /\ runs'[i].key.rev = k.rev /\ runs'[i].made = made
      BY <1>1, <2>2 DEF Rerun, SameOccurrence, RetryKey
    <3>2. i \in Used /\ runs'[i].key = runs[i].key /\ runs'[i].made = runs[i].made
      BY <1>2, <3>1, ScheduledRows
    <3>3. Known(r, made, k.rev)
      BY <3>1, <3>2 DEF RetryInv, RevisionsInv
    <3>4. made \in Nat /\ (rules[r] # NoRule => rules[r].rev \in Nat)
      BY <1>1, <1>4, FieldsOfRule
    <3> QED
      BY <2>1, <3>3, <3>4, NowNotBefore DEF Known
  <2> QED
    BY <1>1, <2>2 DEF Retriable, Rerun, SameOccurrence
<1> QED
  BY <1>5, <1>6

\* The key the tick has claimed, or is about to.
LEMMA KeyStaysRetriable ==
  ASSUME TypeInv, LedgerInv, RetryInv, [Next]_vars,
         Retriable(TheKey("tick"), Tick.snap.made),
         TheKey("tick")' = TheKey("tick"), proc'["tick"].snap = Tick.snap
  PROVE  Retriable(TheKey("tick"), Tick.snap.made)'
<1>1. PICK k, made : k = TheKey("tick") /\ made = Tick.snap.made
  OBVIOUS
<1>2. Retriable(k, made)'
  BY <1>1, RetriableKept
<1> QED
  BY <1>1, <1>2 DEF Retriable, Rerun, SameOccurrence, Tick

\* A fire is claimed only before the first retry of its occurrence, and once in a
\* revision.
LEMMA ClaimedIsRetriable ==
  ASSUME TypeInv, LedgerInv, RetryInv, Claim("tick"), Claims("tick")
  PROVE  Retriable(TheKey("tick"), Tick.snap.made)
<1>1. Tick.pc = "claim" /\ Tick.pc \in AtFire /\ Tick.pc \in OnRule /\ TheKey("tick") \notin DOMAIN receipts
  BY DEF Claims, Tick, AtFire, OnRule
<1>2. /\ TheFire("tick").kind \in {"fire", "retry"} /\ TheFire("tick") \in Fire
      /\ Ahead(TheFire("tick"))
  BY <1>1, FiresOfTick DEF RetryInv
<1>3. CASE TheFire("tick").kind = "retry"
  BY <1>1, <1>3 DEF RetryInv, TickInv
<1>4. CASE TheFire("tick").kind = "fire"
  <2> SUFFICES ASSUME NEW i \in Used, Rerun(TheKey("tick"), Tick.snap.made, i) PROVE FALSE
    BY DEF Retriable
  <2>1. PICK l : l = runs[i].key
    OBVIOUS
  <2>2. /\ l.rule = Tick.rule /\ l.time = TheFire("tick").time /\ l.kind # "manual"
        /\ l.rev = Tick.snap.rev /\ l # TheKey("tick")
    BY <2>1 DEF Rerun, SameOccurrence, TheKey, Tick
  <2>3. l \in DOMAIN receipts /\ l \in Key
    BY <2>1, UsedHasReceipt DEF TypeInv, TypeOK
  <2>4. CASE l.kind = "retry"
    <3>1. l.time < TheFire("tick").time
      BY <1>2, <1>4, <2>2, <2>3, <2>4 DEF Ahead, RetriesOf
    <3> QED
      BY <1>2, <2>2, <3>1 DEF Fire
  <2>5. CASE l.kind = "fire"
    <3>1. l.attempt = 0 /\ TheFire("tick").attempt = 0
      BY <1>2, <1>4, <2>3, <2>5 DEF Ahead, RetryInv, KeysInv
    <3>2. l = TheKey("tick")
      BY <1>4, <2>2, <2>3, <2>5, <3>1 DEF Key, TheKey, Tick
    <3> QED
      BY <2>2, <3>2
  <2> QED
    BY <2>2, <2>3, <2>4, <2>5 DEF Key
<1> QED
  BY <1>2, <1>3, <1>4

\* While the tick admits, only a failed write can have failed a run of its rule: a
\* removed rule lets nothing more be claimed.
FailuresAreFaults ==
  Tick.pc \in Admitting =>
    \A i \in Used :
      /\ runs[i].key.rule = Tick.rule /\ runs[i].key.kind # "manual"
      /\ receipts[runs[i].key] = "failed"
      => faults > 0

LEMMA FailuresStayFaults ==
  ASSUME TypeInv, LedgerInv, RetryInv, [Next]_vars
  PROVE  FailuresAreFaults'
<1>0. FailuresAreFaults
  BY DEF RetryInv, TickInv, FailuresAreFaults
<1>1. CASE Tick.pc \in Admitting /\ proc'["tick"].pc \in Admitting /\ proc'["tick"].rule = Tick.rule
  <2> SUFFICES ASSUME NEW i \in Used',
                      runs'[i].key.rule = Tick.rule, runs'[i].key.kind # "manual",
                      receipts'[runs'[i].key] = "failed"
               PROVE  faults' > 0
    BY <1>1 DEF FailuresAreFaults, Tick
  <2>1. ~Admits("tick", i)
    <3> SUFFICES ASSUME Admits("tick", i) PROVE FALSE
      OBVIOUS
    <3>1. i \in RunIds /\ "tick" \in Procs
      BY DEF Used, Procs
    <3>2. proc'["tick"].pc = "receipt"
      BY <3>1, AdmitsEffect DEF Admits
    <3> QED
      BY <1>1, <3>2 DEF Admitting
  <2>2. i \in Used /\ runs'[i].key = runs[i].key
    BY <2>1, ScheduledRows
  <2>3. PICK k : k = runs[i].key
    OBVIOUS
  <2>4. k \in DOMAIN receipts
    BY <2>2, <2>3, UsedHasReceipt
  <2>5. ASSUME NEW p \in Procs, UpdateReceipt(p) PROVE TheKey(p) # k
    <3>1. proc[p].pc = "receipt"
      BY <2>5 DEF UpdateReceipt
    <3>2. p = "manual"
      BY <1>1, <3>1 DEF Procs, Tick, Admitting
    <3>3. TheFire(p).kind = "manual"
      BY <3>1, <3>2, TheFireType DEF AtFire, Holding, Settling
    <3> QED
      BY <2>2, <2>3, <3>3 DEF TheKey
  <2>6. receipts'[k] = receipts[k]
    BY <2>4, <2>5, ReceiptsKept
  <2>7. faults > 0
    BY <1>0, <1>1, <2>2, <2>3, <2>6 DEF FailuresAreFaults
  <2> QED
    BY <2>7, RulesStay
<1>2. CASE Claim("tick") /\ Claims("tick")
  <2>1. /\ UNCHANGED <<runs, faults>> /\ Tick.rule \notin deleted
        /\ \A k \in DOMAIN receipts : receipts'[k] = receipts[k]
    BY <1>2 DEF Claim, Claims, clockVars, Tick
  <2>2. proc'["tick"].rule = Tick.rule
    BY <1>2, GotoEffect DEF Claims, Tick, Procs
  <2>3. ASSUME NEW i \in Used, runs[i].key.rule = Tick.rule, receipts[runs[i].key] = "failed"
        PROVE  faults > 0
    BY <2>1, <2>3 DEF LedgerInv, Row, Used
  <2>4. \A i \in Used : receipts'[runs[i].key] = receipts[runs[i].key]
    BY <2>1, UsedHasReceipt
  <2> QED
    BY <2>1, <2>2, <2>3, <2>4 DEF FailuresAreFaults, Tick, Used
<1>3. CASE proc'["tick"].pc \notin Admitting
  BY <1>3 DEF FailuresAreFaults, Tick
<1> QED
  BY <1>1, <1>2, <1>3, TickSteps
     DEF TickMoves, Collects, Reads, Passes, Stands, OnRule, AtFire, Holding, Admitting

LEMMA TickInvKept ==
  ASSUME TypeInv, LedgerInv, RetryInv, [Next]_vars
  PROVE  TickInv'
<1>1. proc'["tick"].at <= now'
  <2>1. Tick.at \in Nat /\ now \in Nat /\ Tick.at <= now
    BY FieldsOfProc DEF TypeInv, TypeOK, Time, Tick, Procs, RetryInv, TickInv
  <2> QED
    BY <2>1, TickSteps, NowNotBefore DEF TickClock
<1>2. ASSUME proc'["tick"].pc = "fires", proc'["tick"].fires # <<>>, TheFire("tick")'.kind = "retry",
             rules'[proc'["tick"].rule] # NoRule,
             NEW r, NEW t, NEW attempt, r = proc'["tick"].rule,
             t = TheFire("tick")'.time, attempt = TheFire("tick")'.attempt
      PROVE  Retriable(RetryKey(r, t, attempt), rules[r].made)'
  <2>1. CASE proc'["tick"] = Tick
    <3>1. TheFire("tick")' = TheFire("tick")
      BY <2>1, KeyOfStill DEF Tick
    <3>2. /\ Tick.pc = "fires" /\ Tick.fires # <<>> /\ r = Tick.rule
          /\ TheFire("tick").kind = "retry" /\ t = TheFire("tick").time
          /\ attempt = TheFire("tick").attempt
      BY <1>2, <2>1, <3>1
    <3>3. rules[r] # NoRule => Retriable(RetryKey(r, t, attempt), rules[r].made)
      BY <3>2 DEF RetryInv, TickInv
    <3> QED
      BY <1>2, <3>2, <3>3, WaitingRetry
  <2>2. CASE Passes
    <3>1. /\ Tick.pc \in OnRule /\ Tick.fires # <<>> /\ proc'["tick"].fires = Tail(Tick.fires)
      BY <2>2 DEF Passes
    <3>2. /\ Tick.fires \in Seq(Fire) /\ Len(Tick.fires) \in Nat
          /\ \A n \in 1..Len(Tick.fires) : Tick.fires[n].kind = "retry" => Len(Tick.fires) = 1
      BY <3>1, FiresOfTick DEF RetryInv, FiresInv
    <3>3. 2 \in 1..Len(Tick.fires) /\ TheFire("tick")' = Tick.fires[2]
      BY <1>2, <3>1, <3>2 DEF TheFire
    <3> QED
      BY <1>2, <3>2, <3>3
  <2>3. CASE Collects
    <3>1. /\ UNCHANGED <<rules, receipts, runs>> /\ r \in Rules /\ rules[r] # NoRule
          /\ proc'["tick"].fires = CollectDueFires(rules[r], Tick.at, Tick.startup)
      BY <1>2, <2>3 DEF Collects, StoresStay
    <3>2. rules[r] \in Rule /\ Tick.at \in Nat /\ Tick.startup \in BOOLEAN
      BY <3>1, FieldsOfProc DEF TypeInv, TypeOK, Time, Tick, Procs
    <3>3. PICK fires : fires = proc'["tick"].fires
      OBVIOUS
    <3>4. fires # <<>> /\ Head(fires).kind = "retry" /\ t = Head(fires).time /\ attempt = Head(fires).attempt
      BY <1>2, <3>3 DEF TheFire
    <3>5. fires \in Seq(Fire) /\ Len(fires) \in Nat /\ 1 \in 1..Len(fires) /\ Head(fires) = fires[1]
      <4>1. CollectDueFires(rules[r], Tick.at, Tick.startup) \in Seq(Fire)
        BY <3>2, DueFires
      <4> QED
        BY <3>1, <3>3, <3>4, <4>1
    <3>6. rules[r].retry # NoRetry /\ fires = <<PendingFire(rules[r])>>
      BY <3>1, <3>2, <3>3, <3>4, <3>5, CollectedFires
    <3>7. Pending(r) /\ t = rules[r].retry.orig /\ attempt = rules[r].retry.attempt
      BY <3>1, <3>4, <3>6 DEF Pending, PendingFire
    <3>8. Retriable(RetryKey(r, t, attempt), rules[r].made)
      BY <3>1, <3>7 DEF RetryInv, PendingInv
    <3> QED
      BY <3>1, <3>8 DEF Retriable, RetryKey, Rerun, Used
  <2> QED
    BY <1>2, <2>1, <2>2, <2>3, TickSteps, GotoEffect
       DEF TickMoves, Reads, Stands, Claims, OnRule, AtFire, Holding, Settling, Procs
<1>3. ASSUME proc'["tick"].pc = "claim", TheFire("tick")'.kind = "retry"
      PROVE  Retriable(TheKey("tick"), Tick.snap.made)'
  <2>1. CASE proc'["tick"] = Tick
    <3>1. TheFire("tick")' = TheFire("tick") /\ TheKey("tick")' = TheKey("tick")
      BY <2>1, KeyOfStill DEF Tick
    <3>2. Retriable(TheKey("tick"), Tick.snap.made)
      BY <1>3, <2>1, <3>1 DEF RetryInv, TickInv
    <3> QED
      BY <2>1, <3>1, <3>2, KeyStaysRetriable
  <2>2. CASE Reads
    <3>1. PICK r, f : r = Tick.rule /\ f = TheFire("tick")
      OBVIOUS
    <3>2. TheFire("tick")' = f
      BY <2>2, <3>1 DEF Reads, TheFire, Tick
    <3>3. Retriable(RetryKey(r, f.time, f.attempt), rules[r].made)
      BY <1>3, <2>2, <3>1, <3>2 DEF Reads, RetryInv, TickInv
    <3>4. TheKey("tick")' = RetryKey(r, f.time, f.attempt)
      BY <1>3, <2>2, <3>1, <3>2 DEF Reads, TheKey, RetryKey
    <3>5. proc'["tick"].snap.made = rules[r].made /\ UNCHANGED <<receipts, runs>>
      BY <2>2, <3>1 DEF Reads, StoresStay
    <3> QED
      BY <3>3, <3>4, <3>5 DEF Retriable, Rerun, Used, Tick
  <2> QED
    BY <1>3, <2>1, <2>2, TickSteps, GotoEffect
       DEF TickMoves, Collects, Passes, Stands, Claims, OnRule, AtFire, Holding, Settling, Procs
<1>4. ASSUME proc'["tick"].pc \in Holding
      PROVE  Retriable(TheKey("tick"), Tick.snap.made)'
  <2>1. CASE proc'["tick"] = Tick
    <3>1. TheKey("tick")' = TheKey("tick")
      BY <2>1, KeyOfStill DEF Tick
    <3>2. Retriable(TheKey("tick"), Tick.snap.made)
      BY <1>4, <2>1 DEF RetryInv, TickInv
    <3> QED
      BY <2>1, <3>1, <3>2, KeyStaysRetriable
  <2>2. CASE Stands
    <3>1. Retriable(TheKey("tick"), Tick.snap.made)
      BY <2>2 DEF Stands, RetryInv, TickInv
    <3> QED
      BY <2>2, <3>1, KeyStaysRetriable DEF Stands
  <2>3. CASE Claim("tick") /\ Claims("tick")
    <3>1. TheKey("tick")' = TheKey("tick") /\ proc'["tick"].snap = Tick.snap
      BY <2>3, GotoEffect DEF Claims, Procs, Tick
    <3> QED
      BY <2>3, <3>1, ClaimedIsRetriable, KeyStaysRetriable
  <2> QED
    BY <1>4, <2>1, <2>2, <2>3, TickSteps
       DEF TickMoves, Collects, Reads, Passes, OnRule, AtFire, Holding, Settling
<1>5. FailuresAreFaults'
  BY FailuresStayFaults
<1> QED
  BY <1>1, <1>2, <1>3, <1>4, <1>5 DEF TickInv, FailuresAreFaults, Tick

LEMMA RetryInvariant == Spec => []RetryInv
<1>1. ASSUME Init PROVE RetryInv
  <2>1. /\ \A r \in Rules : rules[r] = NoRule
        /\ DOMAIN receipts = {}
        /\ \A i \in RunIds : runs[i] = NoRun
    BY <1>1 DEF Init
  <2>2. Tick.pc = "idle" /\ Tick.at = 0 /\ now = 0
    BY <1>1 DEF Init, Idle, Tick, Procs
  <2>3. Tick.pc \notin OnRule /\ Tick.pc \notin AtFire /\ Tick.pc \notin Holding
        /\ Tick.pc \notin Admitting
    BY <2>2 DEF OnRule, AtFire, Holding, Settling, Admitting
  <2>4. PendingInv /\ KeysInv
    BY <2>1 DEF PendingInv, KeysInv, Pending
  <2>5. RevisionsInv
    BY <2>1, <2>3 DEF RevisionsInv, Used
  <2>6. FiresInv /\ TickInv
    BY <2>2, <2>3 DEF FiresInv, TickInv
  <2> QED
    BY <2>4, <2>5, <2>6 DEF RetryInv
<1>2. ASSUME TypeInv, LedgerInv, RetryInv, [Next]_vars PROVE RetryInv'
  BY <1>2, PendingInvKept, KeysInvKept, RevisionsInvKept, FiresInvKept, TickInvKept DEF RetryInv
<1> QED
  BY <1>1, <1>2, TypeInvariant, LedgerInvariant, PTL DEF Spec

-----------------------------------------------------------------------------
(***************************************************************************)
(* What follows from it.                                                   *)
(***************************************************************************)
\* RetryFollowsFailure: a retry's receipt stands behind the failed receipt of the
\* attempt before it (buildFailureAdvanceUpdate is the only writer of a pending
\* retry, and no later step of the tick, the owner or a restart unsettles either).
THEOREM RetriesFollowFailures == Spec => []RetryFollowsFailure
<1>1. TypeInv /\ RetryInv => RetryFollowsFailure
  <2> SUFFICES ASSUME TypeInv, RetryInv, NEW k \in DOMAIN receipts, k.kind = "retry"
               PROVE  \E l \in DOMAIN receipts :
                        /\ SameOccurrence(k, l)
                        /\ l.attempt = k.attempt - 1
                        /\ receipts[l] = "failed"
    BY DEF RetryFollowsFailure
  <2>1. Behind(k.rule, k.time, k.attempt)
    BY DEF RetryInv, KeysInv
  <2>2. PICK l \in DOMAIN receipts :
          /\ l.rule = k.rule /\ l.time = k.time /\ l.kind # "manual"
          /\ l.attempt + 1 = k.attempt
          /\ receipts[l] = "failed"
    BY <2>1 DEF Behind
  <2>3. l.attempt \in Nat
    BY DEF TypeInv, TypeOK, Key
  <2>4. l.attempt = k.attempt - 1
    BY <2>2, <2>3
  <2> QED
    BY <2>2, <2>4 DEF SameOccurrence
<1> QED
  BY <1>1, TypeInvariant, RetryInvariant, PTL

\* OneRunPerRevision: two runs of one occurrence under one revision are those of a
\* trigger that a failed write recorded as failed and of its retry
\* (claimTriggerReceipt, admitMissionAndRun and the catch block of admitFire,
\* through crashes, restarts, edits and test fires).
THEOREM OneRunForARevision == Spec => []OneRunPerRevision
<1>1. ASSUME Init PROVE OneRunPerRevision
  BY <1>1 DEF Init, OneRunPerRevision, Used
<1>2. ASSUME TypeInv, LedgerInv, RetryInv, OneRunPerRevision, [Next]_vars PROVE OneRunPerRevision'
  <2> SUFFICES ASSUME NEW i \in Used', NEW j \in Used', i < j, SameRevision(i, j)'
               PROVE  faults' > 0 /\ receipts'[runs'[i].key] = "failed"
                      /\ runs'[j].key.kind = "retry"
    BY DEF OneRunPerRevision
  <2>1. /\ i \in RunIds /\ j \in RunIds /\ runs'[i] # NoRun /\ runs'[j] # NoRun
        /\ runs'[i].key.kind # "manual" /\ runs'[j].key.kind # "manual"
        /\ SameOccurrence(runs'[i].key, runs'[j].key)
        /\ runs'[i].key.rev = runs'[j].key.rev /\ runs'[i].made = runs'[j].made
    BY DEF SameRevision, SameOccurrence, Used
  <2>2. CASE /\ i \in Used /\ runs'[i].key = runs[i].key /\ runs'[i].made = runs[i].made
             /\ j \in Used /\ runs'[j].key = runs[j].key /\ runs'[j].made = runs[j].made
    <3>1. faults > 0 /\ receipts[runs[i].key] = "failed" /\ runs[j].key.kind = "retry"
      BY <1>2, <2>1, <2>2 DEF OneRunPerRevision, SameRevision
    <3> QED
      BY <1>2, <2>2, <3>1, UsedHasReceipt, FailedStays, RulesStay
  <2>3. ASSUME Admits("tick", i) PROVE FALSE
    <3>1. runs[i] = NoRun /\ \A m \in RunIds \ {i} : runs'[m] = runs[m]
      BY <1>2, <2>3 DEF Admits, FreshRun, TypeInv, TypeOK
    <3>2. runs[j] # NoRun
      BY <2>1, <3>1 DEF RunIds
    <3> QED
      BY <1>2, <2>1, <3>1, <3>2 DEF LedgerInv, RowsInOrder
  <2>4. CASE /\ Admits("tick", j)
             /\ runs'[j].key = TheKey("tick") /\ runs'[j].made = Tick.snap.made
             /\ i \in Used /\ runs'[i].key = runs[i].key /\ runs'[i].made = runs[i].made
    <3>1. Tick.pc = "admit" /\ Tick.pc \in Holding /\ Tick.pc \in Admitting
      BY <2>4 DEF Admits, Tick, Holding, Admitting
    <3>2. runs[i].key # TheKey("tick")
      BY <1>2, <2>1, <3>1 DEF LedgerInv, Owning, RowExists, Tick, Procs
    <3>3. Rerun(TheKey("tick"), Tick.snap.made, i)
      BY <2>1, <2>4, <3>2 DEF Rerun
    <3>4. receipts[runs[i].key] = "failed" /\ TheKey("tick").kind = "retry"
      BY <1>2, <2>4, <3>1, <3>3 DEF RetryInv, TickInv, Retriable
    <3>5. runs[i].key.rule = Tick.rule /\ runs[i].key.kind # "manual"
      BY <2>1, <2>4 DEF SameOccurrence, TheKey, Tick
    <3>6. faults > 0
      BY <1>2, <2>4, <3>1, <3>4, <3>5 DEF RetryInv, TickInv
    <3> QED
      BY <1>2, <2>4, <3>4, <3>6, UsedHasReceipt, FailedStays, RulesStay
  <2> QED
    BY <1>2, <2>1, <2>2, <2>3, <2>4, ScheduledRows
<1> QED
  BY <1>1, <1>2, TypeInvariant, LedgerInvariant, RetryInvariant, PTL DEF Spec

=============================================================================
