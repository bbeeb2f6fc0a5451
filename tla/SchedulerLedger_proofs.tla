----------------------- MODULE SchedulerLedger_proofs -----------------------
(***************************************************************************)
(* The receipts and the run rows of Scheduler: who owns a claimed key, what *)
(* its receipt may say, and that together they implement TriggerLedger.    *)
(***************************************************************************)
EXTENDS Scheduler_proofs

-----------------------------------------------------------------------------
(***************************************************************************)
(* What a step may do to a tick or a test fire.                            *)
(***************************************************************************)
OthersStay(p) == \A q \in Procs \ {p} : proc'[q] = proc[q]

LEMMA GotoEffect ==
  ASSUME TypeInv, NEW p \in Procs, NEW pc, Goto(p, pc)
  PROVE  /\ proc'[p].pc = pc /\ OthersStay(p)
         /\ TheKey(p)' = TheKey(p) /\ TheFire(p)' = TheFire(p)
         /\ proc'[p].fires = proc[p].fires /\ proc'[p].snap = proc[p].snap
         /\ proc'[p].rule = proc[p].rule /\ proc'[p].outcome = proc[p].outcome
         /\ proc'[p].run = proc[p].run /\ proc'[p].results = proc[p].results
         /\ proc'[p].at = proc[p].at /\ proc'[p].startup = proc[p].startup
<1>1. proc \in [Procs -> Proc] /\ proc[p] \in Proc
  BY DEF TypeInv, TypeOK
<1>2. proc' = [proc EXCEPT ![p].pc = pc]
  BY DEF Goto
<1>3. /\ proc'[p].pc = pc /\ OthersStay(p)
      /\ proc'[p].fires = proc[p].fires /\ proc'[p].snap = proc[p].snap
      /\ proc'[p].rule = proc[p].rule /\ proc'[p].outcome = proc[p].outcome
      /\ proc'[p].run = proc[p].run /\ proc'[p].results = proc[p].results
      /\ proc'[p].at = proc[p].at /\ proc'[p].startup = proc[p].startup
  BY <1>1, <1>2 DEF OthersStay, Proc
<1> QED
  BY <1>3 DEF TheKey, TheFire

LEMMA FailFireEffect ==
  ASSUME TypeInv, NEW p \in Procs, FailFire(p)
  PROVE  /\ proc'[p].pc = "receipt" /\ OthersStay(p)
         /\ TheKey(p)' = TheKey(p) /\ TheFire(p)' = TheFire(p)
         /\ proc'[p].fires = proc[p].fires /\ proc'[p].snap = proc[p].snap
         /\ proc'[p].rule = proc[p].rule /\ proc'[p].outcome = "failed"
         /\ proc'[p].results = proc[p].results /\ proc'[p].at = proc[p].at /\ proc'[p].startup = proc[p].startup
<1>1. proc \in [Procs -> Proc] /\ proc[p] \in Proc
  BY DEF TypeInv, TypeOK
<1>2. /\ proc'[p].pc = "receipt" /\ OthersStay(p)
      /\ proc'[p].fires = proc[p].fires /\ proc'[p].snap = proc[p].snap
      /\ proc'[p].rule = proc[p].rule /\ proc'[p].outcome = "failed"
      /\ proc'[p].results = proc[p].results /\ proc'[p].at = proc[p].at /\ proc'[p].startup = proc[p].startup
  BY <1>1 DEF FailFire, OthersStay, Proc
<1> QED
  BY <1>2 DEF TheKey, TheFire

LEMMA FinishEffect ==
  ASSUME TypeInv, NEW p \in Procs, Finish(p)
  PROVE  proc'[p] = Idle /\ OthersStay(p) /\ proc'[p].pc = "idle" /\ proc'[p].results = <<>>
         /\ proc'[p].fires = <<>> /\ proc'[p].at = 0 /\ ~proc'[p].startup
BY DEF Finish, TypeInv, TypeOK, OthersStay, Idle

LEMMA NextFireOfEffect ==
  ASSUME TypeInv, NEW p \in Procs, NEW admitted \in BOOLEAN, NextFireOf(p, admitted)
  PROVE  /\ proc'[p].pc = (IF p = "tick" THEN "fires" ELSE "launch") /\ OthersStay(p)
         /\ proc'[p].results = IF admitted THEN Append(proc[p].results, proc[p].run)
                               ELSE proc[p].results
         /\ proc'[p].fires = Tail(proc[p].fires) /\ proc'[p].rule = proc[p].rule
         /\ proc'[p].at = proc[p].at /\ proc'[p].startup = proc[p].startup
BY DEF NextFireOf, TypeInv, TypeOK, OthersStay, Idle

LEMMA KeyOfStill ==
  ASSUME NEW q, proc'[q] = proc[q]
  PROVE  TheKey(q)' = TheKey(q) /\ TheFire(q)' = TheFire(q)
BY DEF TheKey, TheFire

\* The tick and the test fire never hold one key.
LEMMA KeysAreApart ==
  ASSUME TypeInv, NEW p \in Procs, NEW q \in Procs, p # q,
         proc[p].pc \in AtFire, proc[q].pc \in AtFire
  PROVE  TheKey(p) # TheKey(q)
<1>1. (TheFire(p).kind = "manual") <=> (p = "manual")
  BY TheFireType
<1>2. (TheFire(q).kind = "manual") <=> (q = "manual")
  BY TheFireType
<1>3. TheKey(p).kind = TheFire(p).kind /\ TheKey(q).kind = TheFire(q).kind
  BY DEF TheKey
<1> QED
  BY <1>1, <1>2, <1>3 DEF Procs

-----------------------------------------------------------------------------
(***************************************************************************)
(* The invariant.  A key between its claim and the advance of its rule is  *)
(* held by one trigger; when it is released as admitted, nobody ever holds *)
(* it again.                                                               *)
(***************************************************************************)
Held(k) == \E q \in Procs : proc[q].pc \in Holding /\ TheKey(q) = k

Released(k) == k \in DOMAIN receipts /\ receipts[k] = "admitted" /\ ~Held(k)

Launchable(i) == Released(runs[i].key)

Among(i, s) == \E n \in 1..Len(s) : s[n] = i

RowExists(k) == \E i \in RunIds : runs[i].key = k

Admitting == {"replace", "cancel", "admit"}

\* What a trigger knows of the key it holds, and of the runs it will launch.
Owning(p) ==
  /\ proc[p].pc \in AtFire => rules[proc[p].rule] # NoRule \/ proc[p].rule \in deleted
  /\ proc[p].pc \in Holding => TheKey(p) \in DOMAIN receipts
  /\ proc[p].pc \in Admitting => receipts[TheKey(p)] = "claimed" /\ ~RowExists(TheKey(p))
  /\ proc[p].pc = "receipt" =>
       /\ receipts[TheKey(p)] = "claimed" \/ proc[p].outcome = "failed"
       /\ proc[p].outcome = "skipped" => ~RowExists(TheKey(p))
  /\ proc[p].pc = "advance" => receipts[TheKey(p)] = proc[p].outcome
  /\ proc[p].pc \in Settling /\ proc[p].outcome = "admitted" =>
       runs[proc[p].run].key = TheKey(p)
  /\ proc[p].pc \in Settling /\ proc[p].outcome = "failed" /\ RowExists(TheKey(p)) =>
       proc[p].rule \in deleted \/ faults > 0
  /\ \A i \in RunIds : Among(i, proc[p].results) => Launchable(i)

Row(i) ==
  runs[i] # NoRun =>
    /\ runs[i].status # "none"
    /\ runs[i].key \in DOMAIN receipts
    /\ receipts[runs[i].key] # "skipped"
    /\ receipts[runs[i].key] = "failed" => runs[i].key.rule \in deleted \/ faults > 0
    /\ runs[i].status \in {"running", "blocked"} => Released(runs[i].key)

OneRowPerKey ==
  \A i, j \in RunIds : runs[i] # NoRun /\ runs[j] # NoRun /\ runs[i].key = runs[j].key => i = j

RowsInOrder == \A i, j \in RunIds : i < j /\ runs[j] # NoRun => runs[i] # NoRun

LedgerInv ==
  /\ \A p \in Procs : Owning(p)
  /\ \A i \in RunIds : Row(i)
  /\ OneRowPerKey
  /\ RowsInOrder

-----------------------------------------------------------------------------
(***************************************************************************)
(* What every step respects.                                               *)
(***************************************************************************)
LEMMA BeginTickEffect ==
  ASSUME TypeInv, NEW startup \in BOOLEAN, BeginTick(startup)
  PROVE  /\ proc'["tick"].pc = "rules" /\ OthersStay("tick")
         /\ proc'["tick"].results = <<>> /\ proc'["tick"].fires = <<>>
         /\ proc'["tick"].at = now /\ proc'["tick"].startup = startup
BY DEF BeginTick, TypeInv, TypeOK, OthersStay, Idle, Procs

LEMMA ReadRuleEffect ==
  ASSUME TypeInv, NEW p \in Procs, ReadRule(p) \/ ReadLatestRule(p)
  PROVE  /\ proc'[p].pc \in {"rules", "fires", "launch", "claim"} /\ OthersStay(p)
         /\ proc'[p].results = proc[p].results /\ proc'[p].at = proc[p].at /\ proc'[p].startup = proc[p].startup
         /\ proc'[p].pc = "claim" =>
              /\ proc'[p].rule = proc[p].rule /\ proc'[p].fires = proc[p].fires
              /\ proc'[p].snap = rules[proc[p].rule] /\ rules[proc[p].rule] # NoRule
              /\ proc[p].pc = "fires"
<1>1. proc \in [Procs -> Proc] /\ proc[p] \in Proc
  BY DEF TypeInv, TypeOK
<1>2. CASE ReadRule(p)
  <2>1. CASE Goto(p, "launch")
    BY <1>1, <2>1, GotoEffect
  <2>2. ASSUME NEW r \in proc[p].todo,
               proc' = [proc EXCEPT ![p].todo = @ \ {r}, ![p].rule = r, ![p].pc = "fires",
                                    ![p].fires = IF rules[r] = NoRule THEN <<>>
                         ELSE CollectDueFires(rules[r], proc[p].at, proc[p].startup)]
        PROVE  /\ proc'[p].pc = "fires" /\ OthersStay(p)
               /\ proc'[p].results = proc[p].results /\ proc'[p].at = proc[p].at /\ proc'[p].startup = proc[p].startup
    BY <1>1, <2>2 DEF OthersStay, Proc
  <2> QED
    BY <1>2, <2>1, <2>2 DEF ReadRule
<1>3. CASE ReadLatestRule(p)
  BY <1>1, <1>3 DEF ReadLatestRule, Goto, OthersStay, Proc
<1> QED
  BY <1>2, <1>3

LEMMA ManualTestFireEffect ==
  ASSUME TypeInv, NEW r \in Rules, ManualTestFire(r)
  PROVE  /\ proc'["manual"].pc = "claim" /\ proc'["manual"].rule = r
         /\ proc'["manual"].results = <<>> /\ OthersStay("manual") /\ rules[r] # NoRule
         /\ proc'["manual"].fires = <<[kind |-> "manual", time |-> now, attempt |-> 0]>>
         /\ proc'["manual"].snap = rules[r]
BY DEF ManualTestFire, TypeInv, TypeOK, OthersStay, Idle, Procs

LEMMA ReplaceEffect ==
  ASSUME TypeInv, NEW p \in Procs,
         ReadActiveRuns(p) \/ (CancelVictim(p) /\ ~FailFire(p))
  PROVE  /\ proc[p].pc \in {"replace", "cancel"} /\ proc'[p].pc \in {"admit", "cancel"}
         /\ OthersStay(p)
         /\ TheKey(p)' = TheKey(p) /\ TheFire(p)' = TheFire(p)
         /\ proc'[p].fires = proc[p].fires /\ proc'[p].snap = proc[p].snap
         /\ proc'[p].rule = proc[p].rule /\ proc'[p].at = proc[p].at /\ proc'[p].startup = proc[p].startup /\ proc'[p].outcome = proc[p].outcome
         /\ proc'[p].results = proc[p].results
<1>1. proc \in [Procs -> Proc] /\ proc[p] \in Proc
  BY DEF TypeInv, TypeOK
<1>2. /\ proc[p].pc \in {"replace", "cancel"} /\ proc'[p].pc \in {"admit", "cancel"}
      /\ OthersStay(p)
      /\ proc'[p].fires = proc[p].fires /\ proc'[p].snap = proc[p].snap
      /\ proc'[p].rule = proc[p].rule /\ proc'[p].at = proc[p].at /\ proc'[p].startup = proc[p].startup /\ proc'[p].outcome = proc[p].outcome
      /\ proc'[p].results = proc[p].results
  <2>1. CASE ReadActiveRuns(p)
    BY <1>1, <2>1 DEF ReadActiveRuns, OthersStay, Proc
  <2>2. CASE CancelVictim(p) /\ ~FailFire(p)
    <3>1. PICK i : proc' = [proc EXCEPT ![p].victims = @ \ {i},
                              ![p].pc = IF proc[p].victims = {i} THEN "admit" ELSE @]
      BY <2>2 DEF CancelVictim
    <3>2. proc[p].pc = "cancel"
      BY <2>2 DEF CancelVictim
    <3> QED
      BY <1>1, <3>1, <3>2 DEF OthersStay, Proc
  <2> QED
    BY <2>1, <2>2
<1> QED
  BY <1>2 DEF TheKey, TheFire

LEMMA AdmitsEffect ==
  ASSUME TypeInv, NEW p \in Procs, NEW i \in RunIds,
         proc' = [proc EXCEPT ![p].pc = "receipt", ![p].outcome = "admitted", ![p].run = i]
  PROVE  /\ proc'[p].pc = "receipt" /\ OthersStay(p)
         /\ TheKey(p)' = TheKey(p) /\ TheFire(p)' = TheFire(p)
         /\ proc'[p].fires = proc[p].fires /\ proc'[p].snap = proc[p].snap
         /\ proc'[p].rule = proc[p].rule /\ proc'[p].at = proc[p].at /\ proc'[p].startup = proc[p].startup /\ proc'[p].outcome = "admitted"
         /\ proc'[p].results = proc[p].results /\ proc'[p].run = i
<1>1. proc \in [Procs -> Proc] /\ proc[p] \in Proc
  BY DEF TypeInv, TypeOK
<1>2. /\ proc'[p].pc = "receipt" /\ OthersStay(p)
      /\ proc'[p].fires = proc[p].fires /\ proc'[p].snap = proc[p].snap
      /\ proc'[p].rule = proc[p].rule /\ proc'[p].at = proc[p].at /\ proc'[p].startup = proc[p].startup /\ proc'[p].outcome = "admitted"
      /\ proc'[p].results = proc[p].results /\ proc'[p].run = i
  BY <1>1 DEF OthersStay, Proc
<1> QED
  BY <1>2 DEF TheKey, TheFire

\* An admission writes the first free row; otherwise the rows are as they were.
Admits(p, i) ==
  /\ FreshRun(i) /\ proc[p].pc = "admit"
  /\ ActiveRuns(proc[p].rule) = {} \/ Policy(p).concurrency = "queue"
  /\ runs' = [runs EXCEPT ![i] = [status |-> "queued", key |-> TheKey(p),
                                  under |-> Policy(p).concurrency,
                                  made |-> proc[p].snap.made]]
  /\ proc' = [proc EXCEPT ![p].pc = "receipt", ![p].outcome = "admitted", ![p].run = i]

LEMMA AdmitCases ==
  ASSUME NEW p \in Procs, AdmitMissionAndRun(p)
  PROVE  \/ Goto(p, "receipt") /\ UNCHANGED runs
         \/ FailFire(p) /\ UNCHANGED runs
         \/ \E i \in RunIds : Admits(p, i)
BY DEF AdmitMissionAndRun, Admits

\* A tick or test fire comes to hold a key by claiming it, and in no other way.
Comes(q) ==
  /\ proc[q].pc = "claim" /\ TheKey(q) \notin DOMAIN receipts
  /\ TheKey(q)' = TheKey(q)

Holds(q) == proc[q].pc \in Holding /\ TheKey(q)' = TheKey(q)

LEMMA HoldingSteps ==
  ASSUME TypeInv, [Next]_vars, NEW q \in Procs, proc'[q].pc \in Holding
  PROVE  Holds(q) \/ Comes(q)
<1> DEFINE Goal == Holds(q) \/ Comes(q)
<1> USE DEF Holding, Settling
<1>1. ASSUME proc'[q] = proc[q] PROVE Goal
  BY <1>1, KeyOfStill DEF Holds
<1>2. ASSUME NEW p \in Procs, OthersStay(p), p = q => Goal PROVE Goal
  BY <1>1, <1>2 DEF OthersStay
<1>3. ASSUME NEW startup \in BOOLEAN, BeginTick(startup) PROVE Goal
  BY <1>2, <1>3, BeginTickEffect DEF Procs
<1>4. ASSUME NEW p \in Procs, ReadRule(p) \/ ReadLatestRule(p) PROVE Goal
  BY <1>2, <1>4, ReadRuleEffect
<1>5. ASSUME NEW p \in Procs, Finish(p) PROVE Goal
  BY <1>2, <1>5, FinishEffect
<1>6. ASSUME NEW p \in Procs, NEW admitted \in BOOLEAN, NextFireOf(p, admitted) PROVE Goal
  BY <1>2, <1>6, NextFireOfEffect
<1>7. ASSUME NEW p \in Procs, NEW pc, Goto(p, pc), proc[p].pc \in Holding PROVE Goal
  BY <1>2, <1>7, GotoEffect DEF Holds
<1>8. ASSUME NEW p \in Procs, FailFire(p), proc[p].pc \in Holding PROVE Goal
  BY <1>2, <1>8, FailFireEffect DEF Holds
<1>9. ASSUME NEW p \in Procs, Claim(p) PROVE Goal
  <2>1. CASE Finish(p)
    BY <1>5, <2>1
  <2>2. CASE NextFireOf(p, FALSE)
    BY <1>6, <2>2
  <2>3. ASSUME NEW pc, Goto(p, pc), TheKey(p) \notin DOMAIN receipts PROVE Goal
    BY <1>2, <1>9, <2>3, GotoEffect DEF Comes, Claim
  <2> QED
    BY <1>9, <2>1, <2>2, <2>3 DEF Claim
<1>10. ASSUME NEW p \in Procs, ReadActiveRuns(p) \/ CancelVictim(p) PROVE Goal
  <2>1. CASE FailFire(p)
    BY <1>8, <1>10, <2>1 DEF ReadActiveRuns, CancelVictim
  <2>2. CASE ~FailFire(p)
    BY <1>2, <1>10, <2>2, ReplaceEffect DEF Holds
  <2> QED
    BY <2>1, <2>2
<1>11. ASSUME NEW p \in Procs, AdmitMissionAndRun(p) PROVE Goal
  <2>1. proc[p].pc = "admit"
    BY <1>11 DEF AdmitMissionAndRun
  <2>2. ASSUME NEW i \in RunIds, Admits(p, i) PROVE Goal
    BY <1>2, <2>1, <2>2, AdmitsEffect DEF Holds, Admits
  <2> QED
    BY <1>7, <1>8, <1>11, <2>1, <2>2, AdmitCases
<1>12. ASSUME NEW p \in Procs, UpdateReceipt(p) PROVE Goal
  <2>1. (proc[p].outcome = "admitted") \in BOOLEAN /\ proc[p].pc = "receipt"
    BY <1>12 DEF UpdateReceipt
  <2> QED
    BY <1>6, <1>7, <1>12, <2>1 DEF UpdateReceipt
<1>13. ASSUME NEW p \in Procs, Advance(p) PROVE Goal
  <2>1. (proc[p].outcome = "admitted") \in BOOLEAN /\ proc[p].pc = "advance"
    BY <1>13 DEF Advance
  <2> QED
    BY <1>5, <1>6, <1>8, <1>13, <2>1 DEF Advance
<1>14. ASSUME NEW p \in Procs, WriteFails(p) PROVE Goal
  BY <1>5, <1>8, <1>14 DEF WriteFails
<1>15. ASSUME NEW p \in Procs, LaunchRun(p) \/ LaunchReturns(p) PROVE Goal
  <2>1. OthersStay(p) /\ proc'[p].pc \notin Holding
    BY <1>15, FinishEffect, GotoEffect DEF LaunchRun, LaunchReturns, TypeInv, TypeOK, OthersStay, Proc
  <2> QED
    BY <1>2, <2>1
<1>16. ASSUME NEW r \in Rules, ManualTestFire(r) PROVE Goal
  BY <1>2, <1>16, ManualTestFireEffect DEF Procs
<1>17. ASSUME UNCHANGED proc PROVE Goal
  BY <1>1, <1>17
<1>18. CASE Crash
  BY <1>18 DEF Crash, Idle
<1>19. ASSUME NEW p \in Procs, ProcStep(p) PROVE Goal
  BY <1>4, <1>9, <1>10, <1>11, <1>12, <1>13, <1>15, <1>19 DEF ProcStep
<1>20. ASSUME OwnerStep PROVE Goal
  BY <1>16, <1>17, <1>20 DEF OwnerStep, CreateRule, UpdateRule, RemoveRule, ApplyScheduleOwner,
     DropRule, StopRun
<1>21. CASE TickStart
  BY <1>3, <1>21 DEF TickStart
<1>22. CASE Restart
  BY <1>3, <1>22 DEF Restart
<1>23. CASE ClockTick \/ UNCHANGED vars
  BY <1>17, <1>23 DEF ClockTick, vars
<1> QED
  BY <1>14, <1>18, <1>19, <1>20, <1>21, <1>22, <1>23 DEF Next

\* The third alternative of Claim: the key is new, and is claimed.
Claims(p) ==
  /\ proc[p].pc = "claim" /\ proc[p].rule \notin deleted /\ TheKey(p) \notin DOMAIN receipts
  /\ receipts' = [x \in DOMAIN receipts \cup {TheKey(p)} |->
                    IF x = TheKey(p) THEN "claimed" ELSE receipts[x]]
  /\ Goto(p, IF SkipsFire(p) THEN "receipt"
             ELSE IF Policy(p).concurrency = "replace" THEN "replace" ELSE "admit")

LEMMA ClaimCases ==
  ASSUME NEW p \in Procs, Claim(p)
  PROVE  \/ Finish(p) /\ UNCHANGED receipts
         \/ NextFireOf(p, FALSE) /\ UNCHANGED receipts
         \/ Claims(p)
BY DEF Claim, Claims

LEMMA ReceiptSteps ==
  ASSUME [Next]_vars
  PROVE  \/ UNCHANGED receipts
         \/ \E p \in Procs : Claim(p) /\ Claims(p)
         \/ \E p \in Procs : UpdateReceipt(p)
<1> DEFINE Goal == \/ UNCHANGED receipts
                   \/ \E p \in Procs : Claim(p) /\ Claims(p)
                   \/ \E p \in Procs : UpdateReceipt(p)
<1>1. ASSUME NEW p \in Procs, ProcStep(p) PROVE Goal
  BY <1>1, ClaimCases DEF ProcStep, ReadRule, ReadLatestRule, ReadActiveRuns, CancelVictim,
     AdmitMissionAndRun, Advance, LaunchRun, LaunchReturns
<1>2. ASSUME OwnerStep PROVE Goal
  BY <1>2 DEF OwnerStep, CreateRule, UpdateRule, RemoveRule, ApplyScheduleOwner, DropRule,
     ManualTestFire, StopRun
<1> QED
  BY <1>1, <1>2 DEF Next, TickStart, WriteFails, ClockTick, Crash, Restart, vars

\* Keys stay in the ledger, and only the trigger that holds one writes it.
LEMMA ReceiptsKept ==
  ASSUME TypeInv, [Next]_vars, NEW k \in DOMAIN receipts
  PROVE  /\ k \in DOMAIN receipts'
         /\ \/ receipts'[k] = receipts[k]
            \/ \E p \in Procs : UpdateReceipt(p) /\ TheKey(p) = k
<1>1. CASE UNCHANGED receipts
  BY <1>1
<1>2. ASSUME NEW p \in Procs, Claims(p)
      PROVE  k \in DOMAIN receipts' /\ receipts'[k] = receipts[k]
  BY <1>2 DEF Claims
<1>3. ASSUME NEW p \in Procs, UpdateReceipt(p)
      PROVE  k \in DOMAIN receipts' /\ (receipts'[k] = receipts[k] \/ TheKey(p) = k)
  BY <1>3 DEF UpdateReceipt
<1> QED
  BY <1>1, <1>2, <1>3, ReceiptSteps

LEMMA ReleasedStays ==
  ASSUME TypeInv, [Next]_vars, NEW k, Released(k)
  PROVE  Released(k)'
<1>1. k \in DOMAIN receipts /\ receipts[k] = "admitted" /\ ~Held(k)
  BY DEF Released
<1>2. k \in DOMAIN receipts' /\ receipts'[k] = "admitted"
  <2>1. ASSUME NEW p \in Procs, UpdateReceipt(p) PROVE TheKey(p) # k
    BY <1>1, <2>1 DEF Held, UpdateReceipt, Holding, Settling
  <2> QED
    BY <1>1, <2>1, ReceiptsKept
<1>3. ~Held(k)'
  <2> SUFFICES ASSUME NEW q \in Procs, proc'[q].pc \in Holding, TheKey(q)' = k PROVE FALSE
    BY DEF Held
  <2> QED
    BY <1>1, HoldingSteps DEF Held, Holds, Comes
<1> QED
  BY <1>2, <1>3 DEF Released

\* Rules do not vanish, and failed writes are not forgotten.
LEMMA RulesStay ==
  ASSUME TypeInv, [Next]_vars
  PROVE  /\ \A r \in Rules : rules[r] # NoRule => rules'[r] # NoRule \/ r \in deleted'
         /\ deleted \subseteq deleted'
         /\ faults > 0 => faults' > 0
<1>1. deleted \subseteq deleted'
  BY DEF Next, TickStart, ProcStep, ReadRule, ReadLatestRule, Claim, ReadActiveRuns, CancelVictim,
     AdmitMissionAndRun, UpdateReceipt, Advance, LaunchRun, LaunchReturns, OwnerStep, CreateRule,
     UpdateRule, RemoveRule, ApplyScheduleOwner, DropRule, ManualTestFire, StopRun, WriteFails,
     ClockTick, Crash, Restart, vars
<1>2. faults' = faults \/ faults' = faults + 1
  BY DEF Next, TickStart, ProcStep, ReadRule, ReadLatestRule, Claim, ReadActiveRuns, CancelVictim,
     AdmitMissionAndRun, UpdateReceipt, Advance, LaunchRun, LaunchReturns, OwnerStep, CreateRule,
     UpdateRule, RemoveRule, ApplyScheduleOwner, DropRule, ManualTestFire, StopRun, WriteFails,
     ClockTick, Crash, Restart, vars, clockVars
<1>3. faults \in Nat
  BY DEF TypeInv, TypeOK
<1>4. ASSUME NEW r \in Rules, rules[r] # NoRule PROVE rules'[r] # NoRule \/ r \in deleted'
  <2>1. CASE Created(r) \/ Edited(r)
    BY <2>1, WrittenRule, NullsAssumption
  <2>2. CASE Advanced(r)
    BY <2>2, WrittenRule, NullsAssumption
  <2> QED
    BY <1>4, <2>1, <2>2, RuleSteps DEF Dropped
<1> QED
  BY <1>1, <1>2, <1>3, <1>4

-----------------------------------------------------------------------------
(***************************************************************************)
(* The invariant is kept.  First what a trigger that does not move keeps,  *)
(* and the rows a step does not write.                                     *)
(***************************************************************************)
LEMMA UsedRow ==
  ASSUME TypeInv, NEW i \in RunIds
  PROVE  /\ runs[i] \in RunRow
         /\ runs[i].key \in Key => runs[i] # NoRun
         /\ NoRun.key \notin Key
BY NullsAssumption DEF TypeInv, TypeOK, NoRun

LEMMA LaunchableKept ==
  ASSUME TypeInv, [Next]_vars, NEW i \in RunIds, Launchable(i),
         runs'[i].key = runs[i].key \/ runs[i] = NoRun
  PROVE  Launchable(i)'
<1>1. runs[i].key \in Key
  BY DEF Launchable, Released, TypeInv, TypeOK
<1>2. runs[i] # NoRun
  BY <1>1, UsedRow
<1>3. Released(runs[i].key)'
  <2> DEFINE k == runs[i].key
  <2>1. Released(k)
    BY DEF Launchable
  <2>2. runs'[i].key = k
    BY <1>2
  <2>3. \A l : Released(l) => Released(l)'
    BY ReleasedStays
  <2> HIDE DEF k
  <2> QED
    BY <2>1, <2>2, <2>3 DEF Released, Held
<1> QED
  BY <1>3 DEF Launchable

\* Every row keeps its key, but for a free one that may get a key other than
\* that of a given trigger.
KeysKept(q) ==
  \A i \in RunIds : \/ runs'[i].key = runs[i].key
                    \/ /\ runs[i] = NoRun
                       /\ proc[q].pc \in Holding => runs'[i].key # TheKey(q)

LEMMA ResultsKept ==
  ASSUME TypeInv, LedgerInv, [Next]_vars, NEW q \in Procs, KeysKept(q)
  PROVE  \A i \in RunIds : Among(i, proc[q].results) => Launchable(i)'
BY LaunchableKept DEF LedgerInv, Owning, KeysKept

LEMMA RowExistsKept ==
  ASSUME TypeInv, NEW q \in Procs, proc[q].pc \in Holding, TheKey(q)' = TheKey(q), KeysKept(q),
         RowExists(TheKey(q))'
  PROVE  RowExists(TheKey(q))
<1>1. PICK i \in RunIds : runs'[i].key = TheKey(q)
  BY DEF RowExists
<1>2. runs[i].key = TheKey(q)
  BY <1>1 DEF KeysKept
<1> QED
  BY <1>2 DEF RowExists

\* What Owning says beside the results, for a trigger that goes on holding its
\* key and whose receipt and row are not written.
LEMMA OwningKept ==
  ASSUME TypeInv, LedgerInv, [Next]_vars, NEW q \in Procs, proc'[q] = proc[q], KeysKept(q),
         proc[q].pc \in Holding => receipts'[TheKey(q)] = receipts[TheKey(q)]
  PROVE  Owning(q)'
<1>1. TheKey(q)' = TheKey(q) /\ Owning(q)
  BY KeyOfStill DEF LedgerInv
<1>2. proc'[q].pc \in AtFire => rules'[proc'[q].rule] # NoRule \/ proc'[q].rule \in deleted'
  <2>1. proc[q].rule \in Rules
    BY FieldsOfProc DEF TypeInv, TypeOK
  <2> QED
    BY <1>1, <2>1, RulesStay DEF Owning
<1>3. proc'[q].pc \in Holding => TheKey(q)' \in DOMAIN receipts'
  BY <1>1, ReceiptsKept DEF Owning
<1>4. proc'[q].pc \in Admitting =>
        receipts'[TheKey(q)'] = "claimed" /\ ~RowExists(TheKey(q))'
  BY <1>1, RowExistsKept DEF Owning, Admitting, Holding
<1>5. proc'[q].pc = "receipt" =>
        /\ receipts'[TheKey(q)'] = "claimed" \/ proc'[q].outcome = "failed"
        /\ proc'[q].outcome = "skipped" => ~RowExists(TheKey(q))'
  BY <1>1, RowExistsKept DEF Owning, Settling, Holding
<1>6. proc'[q].pc = "advance" => receipts'[TheKey(q)'] = proc'[q].outcome
  BY <1>1 DEF Owning, Settling, Holding
<1>7. proc'[q].pc \in Settling /\ proc'[q].outcome = "admitted" =>
        runs'[proc'[q].run].key = TheKey(q)'
  <2> SUFFICES ASSUME proc[q].pc \in Settling, proc[q].outcome = "admitted"
               PROVE  runs'[proc[q].run].key = TheKey(q)
    BY <1>1
  <2>1. proc[q].run \in RunIds /\ proc[q].pc \in AtFire
    BY DEF TypeInv, Shaped, AtFire, Holding
  <2>2. runs[proc[q].run].key = TheKey(q) /\ TheKey(q) \in Key
    BY <1>1, <2>1, TheFireType DEF Owning
  <2>3. runs[proc[q].run] # NoRun
    BY <2>1, <2>2, UsedRow
  <2> QED
    BY <2>1, <2>2, <2>3 DEF KeysKept
<1>8. proc'[q].pc \in Settling /\ proc'[q].outcome = "failed" /\ RowExists(TheKey(q))' =>
        proc'[q].rule \in deleted' \/ faults' > 0
  BY <1>1, RowExistsKept, RulesStay DEF Owning, Holding
<1>9. \A i \in RunIds : Among(i, proc'[q].results) => Launchable(i)'
  BY ResultsKept
<1> QED
  BY <1>2, <1>3, <1>4, <1>5, <1>6, <1>7, <1>8, <1>9 DEF Owning

\* A row that no step writes, while no receipt of a row is settled.
LEMMA RowKept ==
  ASSUME TypeInv, LedgerInv, [Next]_vars, NEW i \in RunIds,
         runs'[i].key = runs[i].key, runs'[i].status = runs[i].status \/ runs'[i].status = "cancelled",
         runs'[i] # NoRun => runs[i] # NoRun,
         runs[i].key \in DOMAIN receipts => receipts'[runs[i].key] = receipts[runs[i].key]
  PROVE  Row(i)'
<1> SUFFICES ASSUME runs'[i] # NoRun, NEW k, k = runs[i].key
             PROVE  /\ runs'[i].status # "none"
                    /\ k \in DOMAIN receipts'
                    /\ receipts'[k] # "skipped"
                    /\ receipts'[k] = "failed" => k.rule \in deleted' \/ faults' > 0
                    /\ runs'[i].status \in {"running", "blocked"} => Released(k)'
  BY DEF Row
<1>1. Row(i) /\ runs[i] # NoRun
  BY DEF LedgerInv
<1>2. k \in DOMAIN receipts
  BY <1>1 DEF Row
<1>3. k.rule \in deleted => k.rule \in deleted'
  BY RulesStay
<1>4. Released(k) => Released(k)'
  BY ReleasedStays
<1> QED
  BY <1>1, <1>2, <1>3, <1>4, ReceiptsKept, RulesStay DEF Row

RowsStay ==
  \A i \in RunIds :
    /\ runs'[i].key = runs[i].key /\ runs'[i].made = runs[i].made
    /\ runs'[i] # NoRun <=> runs[i] # NoRun

\* Statuses apart, the rows are as they were: the invariant follows from that of
\* the trigger that moved, and of each row.
LEMMA LedgerFollows ==
  ASSUME TypeInv, LedgerInv, [Next]_vars, NEW p \in Procs, OthersStay(p), RowsStay,
         Owning(p)', \A i \in RunIds : Row(i)',
         \A q \in Procs \ {p} :
           proc[q].pc \in Holding => receipts'[TheKey(q)] = receipts[TheKey(q)]
  PROVE  LedgerInv'
<1>1. \A q \in Procs : KeysKept(q)
  BY DEF RowsStay, KeysKept
<1>2. \A q \in Procs : Owning(q)'
  BY <1>1, OwningKept DEF OthersStay
<1>3. OneRowPerKey' /\ RowsInOrder'
  BY DEF LedgerInv, OneRowPerKey, RowsInOrder, RowsStay
<1> QED
  BY <1>2, <1>3 DEF LedgerInv

\* A step of one trigger that writes neither receipts nor rows.
LEMMA LedgerOfMove ==
  ASSUME TypeInv, LedgerInv, [Next]_vars, NEW p \in Procs, OthersStay(p),
         UNCHANGED <<receipts, runs>>, Owning(p)'
  PROVE  LedgerInv'
<1>1. RowsStay /\ \A i \in RunIds : Row(i)'
  BY RowKept DEF RowsStay
<1> QED
  BY <1>1, LedgerFollows

\* A trigger that holds nothing has only its rule and its results to answer for.
LEMMA OwningNothing ==
  ASSUME TypeInv, LedgerInv, [Next]_vars, NEW p \in Procs, KeysKept(p),
         proc'[p].pc \notin AtFire,
         proc'[p].results \in {proc[p].results, <<>>}
  PROVE  Owning(p)'
<1>1. \A i \in RunIds : Among(i, proc'[p].results) => Launchable(i)'
  BY ResultsKept DEF Among
<1> QED
  BY <1>1 DEF Owning, AtFire, Holding, Settling, Admitting

LEMMA AtClaimOwns ==
  ASSUME TypeInv, LedgerInv, [Next]_vars, NEW p \in Procs, KeysKept(p),
         proc'[p].pc = "claim", rules'[proc'[p].rule] # NoRule,
         proc'[p].results \in {proc[p].results, <<>>}
  PROVE  Owning(p)'
<1>1. \A i \in RunIds : Among(i, proc'[p].results) => Launchable(i)'
  BY ResultsKept DEF Among
<1> QED
  BY <1>1 DEF Owning, AtFire, Holding, Settling, Admitting

LEMMA NothingWritten ==
  ASSUME UNCHANGED runs
  PROVE  \A q \in Procs : KeysKept(q)
BY DEF KeysKept

LEMMA BeginTickLedger ==
  ASSUME TypeInv, LedgerInv, [Next]_vars, NEW startup \in BOOLEAN, BeginTick(startup),
         UNCHANGED <<receipts, runs>>
  PROVE  LedgerInv'
<1>1. Owning("tick")'
  BY BeginTickEffect, OwningNothing, NothingWritten DEF Procs, AtFire, Holding, Settling
<1> QED
  BY <1>1, BeginTickEffect, LedgerOfMove DEF Procs

LEMMA ReadLedger ==
  ASSUME TypeInv, LedgerInv, [Next]_vars, NEW p \in Procs, ReadRule(p) \/ ReadLatestRule(p)
  PROVE  LedgerInv'
<1>1. UNCHANGED <<receipts, runs, rules>>
  BY DEF ReadRule, ReadLatestRule
<1>2. CASE proc'[p].pc = "claim"
  <2>1. Owning(p)'
    BY <1>1, <1>2, ReadRuleEffect, AtClaimOwns, NothingWritten
  <2> QED
    BY <1>1, <2>1, ReadRuleEffect, LedgerOfMove
<1>3. CASE proc'[p].pc # "claim"
  <2>1. Owning(p)'
    BY <1>1, <1>3, ReadRuleEffect, OwningNothing, NothingWritten DEF AtFire, Holding, Settling
  <2> QED
    BY <1>1, <2>1, ReadRuleEffect, LedgerOfMove
<1> QED
  BY <1>2, <1>3

LEMMA ManualTestFireLedger ==
  ASSUME TypeInv, LedgerInv, [Next]_vars, NEW r \in Rules, ManualTestFire(r)
  PROVE  LedgerInv'
<1>1. UNCHANGED <<receipts, runs, rules>>
  BY DEF ManualTestFire, clockVars
<1>2. Owning("manual")'
  BY <1>1, ManualTestFireEffect, AtClaimOwns, NothingWritten DEF Procs
<1> QED
  BY <1>1, <1>2, ManualTestFireEffect, LedgerOfMove DEF Procs

LEMMA FinishLedger ==
  ASSUME TypeInv, LedgerInv, [Next]_vars, NEW p \in Procs, Finish(p), UNCHANGED <<receipts, runs>>
  PROVE  LedgerInv'
<1>1. Owning(p)'
  BY FinishEffect, OwningNothing, NothingWritten DEF AtFire, Holding, Settling
<1> QED
  BY <1>1, FinishEffect, LedgerOfMove

\* A failure is noted where the key has no row, its rule was removed, or a write
\* failed.
LEMMA FailFireLedger ==
  ASSUME TypeInv, LedgerInv, [Next]_vars, NEW p \in Procs, FailFire(p),
         proc[p].pc \in Holding, UNCHANGED <<receipts, runs>>,
         proc[p].pc \in Admitting \/ proc[p].rule \in deleted \/ faults' > 0
  PROVE  LedgerInv'
<1>1. Owning(p) /\ TheKey(p)' = TheKey(p)
  BY FailFireEffect DEF LedgerInv
<1>2. \A i \in RunIds : Among(i, proc'[p].results) => Launchable(i)'
  BY FailFireEffect, ResultsKept, NothingWritten
<1>3. RowExists(TheKey(p))' <=> RowExists(TheKey(p))
  BY <1>1 DEF RowExists
<1>4. proc[p].rule \in Rules
  BY FieldsOfProc DEF TypeInv, TypeOK
<1>5. rules'[proc'[p].rule] # NoRule \/ proc'[p].rule \in deleted'
  BY <1>1, <1>4, FailFireEffect, RulesStay DEF Owning, AtFire
<1>6. RowExists(TheKey(p))' => proc'[p].rule \in deleted' \/ faults' > 0
  BY <1>1, <1>3, FailFireEffect, RulesStay DEF Owning
<1>7. TheKey(p)' \in DOMAIN receipts'
  BY <1>1 DEF Owning
<1>8. proc'[p].pc = "receipt" /\ proc'[p].outcome = "failed"
  BY FailFireEffect
<1>9. Owning(p)'
  BY <1>2, <1>5, <1>6, <1>7, <1>8 DEF Owning, Admitting
<1> QED
  BY <1>9, FailFireEffect, LedgerOfMove

LEMMA ClaimLedger ==
  ASSUME TypeInv, LedgerInv, [Next]_vars, NEW p \in Procs, Claim(p)
  PROVE  LedgerInv'
<1>1. UNCHANGED runs /\ proc[p].pc = "claim" /\ p \in Procs
  BY DEF Claim
<1>2. CASE Finish(p) /\ UNCHANGED receipts
  BY <1>1, <1>2, FinishLedger
<1>3. CASE NextFireOf(p, FALSE) /\ UNCHANGED receipts
  <2>1. proc'[p].pc \notin AtFire /\ proc'[p].results = proc[p].results /\ OthersStay(p)
    BY <1>3, NextFireOfEffect DEF AtFire, Holding, Settling
  <2>2. Owning(p)'
    BY <1>1, <2>1, OwningNothing, NothingWritten
  <2> QED
    BY <1>1, <1>3, <2>1, <2>2, LedgerOfMove
<1>4. CASE Claims(p)
  <2>1. PICK pc \in {"receipt", "replace", "admit"} : Goto(p, pc)
    BY <1>4 DEF Claims
  <2>2. /\ proc'[p].pc = pc /\ OthersStay(p) /\ TheKey(p)' = TheKey(p)
        /\ proc'[p].rule = proc[p].rule /\ proc'[p].outcome = proc[p].outcome
        /\ proc'[p].results = proc[p].results
    BY <2>1, GotoEffect
  <2>3. proc[p].outcome = "skipped" /\ TheKey(p) \in Key /\ proc[p].rule \in Rules
    BY <1>1, TheFireType, FieldsOfProc DEF TypeInv, TypeOK, Shaped, Settling, AtFire
  <2>4. ~RowExists(TheKey(p))
    <3> SUFFICES ASSUME NEW i \in RunIds, runs[i].key = TheKey(p) PROVE FALSE
      BY DEF RowExists
    <3>1. runs[i] # NoRun
      BY <2>3, UsedRow
    <3> QED
      BY <1>4, <3>1 DEF LedgerInv, Row, Claims
  <2>5. ~RowExists(TheKey(p))'
    BY <1>1, <2>2, <2>4 DEF RowExists
  <2>6. TheKey(p) \in DOMAIN receipts' /\ receipts'[TheKey(p)] = "claimed"
    BY <1>4 DEF Claims
  <2>7. rules'[proc'[p].rule] # NoRule \/ proc'[p].rule \in deleted'
    BY <1>1, <2>2, <2>3, RulesStay DEF LedgerInv, Owning, AtFire
  <2>8. \A i \in RunIds : Among(i, proc'[p].results) => Launchable(i)'
    BY <1>1, <2>2, ResultsKept, NothingWritten
  <2>9. Owning(p)'
    BY <2>1, <2>2, <2>3, <2>5, <2>6, <2>7, <2>8 DEF Owning, Settling
  <2>10. \A k \in DOMAIN receipts : receipts'[k] = receipts[k]
    BY <1>4 DEF Claims
  <2>11. RowsStay /\ \A i \in RunIds : Row(i)'
    BY <1>1, <2>10, RowKept DEF RowsStay
  <2>12. \A q \in Procs : proc[q].pc \in Holding => TheKey(q) \in DOMAIN receipts
    BY DEF LedgerInv, Owning
  <2> QED
    BY <2>2, <2>9, <2>10, <2>11, <2>12, LedgerFollows
<1> QED
  BY <1>2, <1>3, <1>4, ClaimCases

\* A cancelled run keeps its key.
LEMMA CancelledRow ==
  ASSUME TypeInv, NEW i \in RunIds, runs[i].status \in ActiveStatus,
         NEW status \in {"running", "blocked", "cancelled"},
         runs' = [runs EXCEPT ![i].status = status]
  PROVE  /\ RowsStay
         /\ runs'[i].status = status
         /\ \A j \in RunIds \ {i} : runs'[j] = runs[j]
<1>1. runs \in [RunIds -> RunRow] /\ runs[i] \in RunRow
  BY DEF TypeInv, TypeOK
<1>2. runs'[i].status = status /\ runs'[i].key = runs[i].key /\ runs'[i].made = runs[i].made
  BY <1>1 DEF RunRow
<1>3. \A j \in RunIds \ {i} : runs'[j] = runs[j]
  BY <1>1
<1>4. runs[i] # NoRun /\ runs'[i] # NoRun
  BY <1>2 DEF NoRun, ActiveStatus
<1> QED
  BY <1>2, <1>3, <1>4 DEF RowsStay

LEMMA ReplaceLedger ==
  ASSUME TypeInv, LedgerInv, [Next]_vars, NEW p \in Procs,
         ReadActiveRuns(p) \/ (CancelVictim(p) /\ ~FailFire(p))
  PROVE  LedgerInv'
<1>1. UNCHANGED receipts
  BY DEF ReadActiveRuns, CancelVictim
<1>2. /\ proc[p].pc \in {"replace", "cancel"} /\ proc'[p].pc \in {"admit", "cancel"}
      /\ OthersStay(p) /\ TheKey(p)' = TheKey(p)
      /\ proc'[p].rule = proc[p].rule /\ proc'[p].results = proc[p].results
  BY ReplaceEffect
<1>3. /\ RowsStay
      /\ \A j \in RunIds : runs'[j].status \in {runs[j].status, "cancelled"}
  <2>1. CASE UNCHANGED runs
    BY <2>1 DEF RowsStay
  <2>2. CASE ~UNCHANGED runs
    <3>1. PICK i \in proc[p].victims :
                 /\ runs[i].status \in ActiveStatus
                 /\ runs' = [runs EXCEPT ![i].status = "cancelled"]
      BY <2>2 DEF ReadActiveRuns, CancelVictim
    <3>2. i \in RunIds
      BY <3>1, FieldsOfProc DEF TypeInv, TypeOK
    <3> QED
      BY <3>1, <3>2, CancelledRow
  <2> QED
    BY <2>1, <2>2
<1>4. \A j \in RunIds : Row(j)'
  BY <1>1, <1>3, RowKept DEF RowsStay
<1>5. Owning(p)'
  <2>1. KeysKept(p) /\ Owning(p)
    BY <1>3 DEF RowsStay, KeysKept, LedgerInv
  <2>2. \A i \in RunIds : Among(i, proc'[p].results) => Launchable(i)'
    BY <1>2, <2>1, ResultsKept
  <2>3. ~RowExists(TheKey(p))'
    BY <1>2, <1>3, <2>1 DEF Owning, Admitting, RowExists, RowsStay
  <2>4. rules'[proc'[p].rule] # NoRule \/ proc'[p].rule \in deleted'
    <3>1. proc[p].rule \in Rules
      BY FieldsOfProc DEF TypeInv, TypeOK
    <3> QED
      BY <1>2, <2>1, <3>1, RulesStay DEF Owning, AtFire, Holding
  <2>5. TheKey(p) \in DOMAIN receipts /\ receipts[TheKey(p)] = "claimed"
    BY <1>2, <2>1 DEF Owning, Admitting, Holding
  <2> QED
    BY <1>1, <1>2, <2>2, <2>3, <2>4, <2>5 DEF Owning, Settling, Admitting
<1> QED
  BY <1>1, <1>2, <1>3, <1>4, <1>5, LedgerFollows

\* The admission: a new row, of a key that had none.
LEMMA AdmitsLedger ==
  ASSUME TypeInv, LedgerInv, [Next]_vars, NEW p \in Procs, NEW i \in RunIds, Admits(p, i),
         UNCHANGED receipts
  PROVE  LedgerInv'
<1>1. /\ proc'[p].pc = "receipt" /\ OthersStay(p) /\ TheKey(p)' = TheKey(p)
      /\ proc'[p].rule = proc[p].rule /\ proc'[p].outcome = "admitted"
      /\ proc'[p].results = proc[p].results /\ proc'[p].run = i
  BY AdmitsEffect DEF Admits
<1>2. proc[p].pc = "admit" /\ runs[i] = NoRun /\ \A j \in 1..(i - 1) : runs[j] # NoRun
  BY DEF Admits, FreshRun
<1>3. /\ runs'[i].status = "queued" /\ runs'[i].key = TheKey(p)
      /\ \A j \in RunIds \ {i} : runs'[j] = runs[j]
  BY DEF Admits, TypeInv, TypeOK
<1>4. Owning(p) /\ TheKey(p) \in DOMAIN receipts /\ receipts[TheKey(p)] = "claimed"
      /\ ~RowExists(TheKey(p))
  BY <1>2 DEF LedgerInv, Owning, Holding, Admitting
<1>5. \A j \in RunIds : runs'[j].key = runs[j].key \/ runs[j] = NoRun
  BY <1>2, <1>3
<1>6. runs'[i] # NoRun
  BY <1>3 DEF NoRun
<1>7. Owning(p)'
  <2>1. \A j \in RunIds : Among(j, proc'[p].results) => Launchable(j)'
    BY <1>1, <1>4, <1>5, LaunchableKept DEF Owning
  <2>2. rules'[proc'[p].rule] # NoRule \/ proc'[p].rule \in deleted'
    <3>1. proc[p].rule \in Rules
      BY FieldsOfProc DEF TypeInv, TypeOK
    <3> QED
      BY <1>1, <1>2, <1>4, <3>1, RulesStay DEF Owning, AtFire, Holding
  <2> QED
    BY <1>1, <1>3, <1>4, <2>1, <2>2 DEF Owning, Settling, Admitting
<1>8. ASSUME NEW q \in Procs \ {p} PROVE Owning(q)'
  <2>1. proc[q].pc \in Holding => TheKey(q) # TheKey(p)
    BY <1>2, KeysAreApart DEF AtFire, Holding
  <2>2. KeysKept(q)
    BY <1>2, <1>3, <2>1 DEF KeysKept
  <2> QED
    BY <1>1, <2>2, OwningKept DEF OthersStay
<1>9. ASSUME NEW j \in RunIds PROVE Row(j)'
  <2>1. CASE j = i
    BY <1>3, <1>4, <2>1 DEF Row
  <2>2. CASE j # i
    BY <1>3, <2>2, RowKept
  <2> QED
    BY <2>1, <2>2
<1>10. OneRowPerKey'
  BY <1>2, <1>3, <1>4 DEF LedgerInv, OneRowPerKey, RowExists
<1>11. RowsInOrder'
  BY <1>2, <1>3, <1>6, SchedulerAssumption DEF LedgerInv, RowsInOrder, RunIds
<1> QED
  BY <1>7, <1>8, <1>9, <1>10, <1>11 DEF LedgerInv

LEMMA AdmitLedger ==
  ASSUME TypeInv, LedgerInv, [Next]_vars, NEW p \in Procs, AdmitMissionAndRun(p)
  PROVE  LedgerInv'
<1>1. UNCHANGED receipts /\ proc[p].pc = "admit"
  BY DEF AdmitMissionAndRun
<1>2. CASE Goto(p, "receipt") /\ UNCHANGED runs
  <2>1. /\ proc'[p].pc = "receipt" /\ OthersStay(p) /\ TheKey(p)' = TheKey(p)
        /\ proc'[p].rule = proc[p].rule /\ proc'[p].outcome = proc[p].outcome
        /\ proc'[p].results = proc[p].results
    BY <1>2, GotoEffect
  <2>2. Owning(p) /\ TheKey(p) \in DOMAIN receipts /\ receipts[TheKey(p)] = "claimed"
        /\ ~RowExists(TheKey(p))
    BY <1>1 DEF LedgerInv, Owning, Holding, Admitting
  <2>3. proc[p].outcome = "skipped" /\ proc[p].rule \in Rules
    BY <1>1, FieldsOfProc DEF TypeInv, TypeOK, Shaped, Settling
  <2>4. rules'[proc'[p].rule] # NoRule \/ proc'[p].rule \in deleted'
    BY <1>1, <2>1, <2>2, <2>3, RulesStay DEF Owning, AtFire, Holding
  <2>5. \A i \in RunIds : Among(i, proc'[p].results) => Launchable(i)'
    BY <1>2, <2>1, ResultsKept, NothingWritten
  <2>6. ~RowExists(TheKey(p))'
    BY <1>2, <2>1, <2>2 DEF RowExists
  <2>7. Owning(p)'
    BY <1>1, <2>1, <2>2, <2>3, <2>4, <2>5, <2>6 DEF Owning, Settling, Admitting
  <2> QED
    BY <1>1, <1>2, <2>1, <2>7, LedgerOfMove
<1>3. CASE FailFire(p) /\ UNCHANGED runs
  BY <1>1, <1>3, FailFireLedger DEF Holding, Admitting
<1>4. ASSUME NEW i \in RunIds, Admits(p, i) PROVE LedgerInv'
  BY <1>1, <1>4, AdmitsLedger
<1> QED
  BY <1>2, <1>3, <1>4, AdmitCases

\* The end of a trigger: what it admitted is not held again, and may be launched.
LEMMA SettledOwns ==
  ASSUME TypeInv, LedgerInv, [Next]_vars, NEW p \in Procs, proc[p].pc \in Settling,
         NextFireOf(p, proc[p].outcome = "admitted"), UNCHANGED runs,
         receipts'[TheKey(p)] = proc[p].outcome
  PROVE  Owning(p)'
<1> DEFINE admitted == proc[p].outcome = "admitted"
<1>0. PICK k, i : k = TheKey(p) /\ i = proc[p].run
  OBVIOUS
<1>1. /\ proc'[p].pc \in {"fires", "launch"} /\ OthersStay(p)
      /\ proc'[p].results = IF admitted THEN Append(proc[p].results, i) ELSE proc[p].results
  BY <1>0, NextFireOfEffect
<1>2. Owning(p) /\ k \in DOMAIN receipts
  BY <1>0 DEF LedgerInv, Owning, Holding
<1>3. admitted => Launchable(i)'
  <2> SUFFICES ASSUME admitted PROVE Launchable(i)'
    OBVIOUS
  <2>1. runs'[i].key = k
    BY <1>0, <1>2 DEF Owning
  <2>2. k \in DOMAIN receipts' /\ receipts'[k] = "admitted"
    BY <1>0, <1>2, ReceiptsKept
  <2>3. ASSUME NEW q \in Procs, proc'[q].pc \in Holding PROVE TheKey(q)' # k
    <3>1. q # p
      BY <1>1, <2>3 DEF Holding, Settling
    <3>2. proc'[q] = proc[q] /\ TheKey(q)' = TheKey(q)
      BY <1>1, <3>1, KeyOfStill DEF OthersStay
    <3> QED
      BY <1>0, <2>3, <3>1, <3>2, KeysAreApart DEF AtFire, Holding, Settling
  <2> QED
    BY <2>1, <2>2, <2>3 DEF Launchable, Released, Held
<1>4. \A j \in RunIds : Among(j, proc[p].results) => Launchable(j)'
  BY ResultsKept, NothingWritten
<1>5. proc[p].results \in Seq(RunIds)
  BY FieldsOfProc DEF TypeInv, TypeOK
<1>6. \A j \in RunIds : Among(j, proc'[p].results) => Launchable(j)'
  <2>1. CASE admitted
    <3>1. i \in RunIds
      BY <1>0, <2>1 DEF TypeInv, Shaped
    <3>2. \A j \in RunIds : Among(j, Append(proc[p].results, i)) => Among(j, proc[p].results) \/ j = i
      BY <1>5, <3>1 DEF Among
    <3> QED
      BY <1>1, <1>3, <1>4, <2>1, <3>2
  <2>2. CASE ~admitted
    BY <1>1, <1>4, <2>2
  <2> QED
    BY <2>1, <2>2
<1> QED
  BY <1>1, <1>6 DEF Owning, AtFire, Holding, Settling, Admitting

LEMMA UpdateReceiptLedger ==
  ASSUME TypeInv, LedgerInv, [Next]_vars, NEW p \in Procs, UpdateReceipt(p)
  PROVE  LedgerInv'
<1> DEFINE k == TheKey(p)
           outcome == proc[p].outcome
<1>1. /\ proc[p].pc = "receipt" /\ receipts' = [receipts EXCEPT ![k] = outcome]
      /\ UNCHANGED <<rules, deleted, runs>>
      /\ NextFireOf(p, outcome = "admitted") \/ Goto(p, "advance")
  BY DEF UpdateReceipt
<1>2. /\ Owning(p) /\ k \in DOMAIN receipts
      /\ outcome = "skipped" => ~RowExists(k)
      /\ outcome = "admitted" => runs[proc[p].run].key = k
      /\ outcome = "failed" /\ RowExists(k) => proc[p].rule \in deleted \/ faults > 0
  BY <1>1 DEF LedgerInv, Owning, Holding, Settling
<1>3. receipts'[k] = outcome /\ \A l \in DOMAIN receipts \ {k} : receipts'[l] = receipts[l]
  BY <1>1, <1>2
<1>4. RowsStay /\ KeysKept(p)
  BY <1>1, NothingWritten DEF RowsStay
<1>5. OthersStay(p)
  BY <1>1, NextFireOfEffect, GotoEffect
<1>6. Owning(p)'
  <2>1. CASE NextFireOf(p, outcome = "admitted")
    BY <1>1, <1>3, <2>1, SettledOwns DEF Settling
  <2>2. CASE Goto(p, "advance")
    <3>1. /\ proc'[p].pc = "advance" /\ TheKey(p)' = k /\ proc'[p].rule = proc[p].rule
          /\ proc'[p].outcome = outcome /\ proc'[p].run = proc[p].run
          /\ proc'[p].results = proc[p].results
      BY <2>2, GotoEffect
    <3>2. \A i \in RunIds : Among(i, proc'[p].results) => Launchable(i)'
      BY <1>4, <3>1, ResultsKept
    <3>3. rules'[proc'[p].rule] # NoRule \/ proc'[p].rule \in deleted'
      BY <1>1, <1>2, <3>1 DEF Owning, AtFire, Holding, Settling
    <3>4. RowExists(TheKey(p))' <=> RowExists(k)
      BY <1>1, <3>1 DEF RowExists
    <3>5. k \in DOMAIN receipts'
      BY <1>2, ReceiptsKept
    <3> HIDE DEF k, outcome
    <3> QED
      BY <1>1, <1>2, <1>3, <3>1, <3>2, <3>3, <3>4, <3>5, RulesStay DEF Owning, Admitting
  <2> QED
    BY <1>1, <2>1, <2>2
<1>7. ASSUME NEW i \in RunIds PROVE Row(i)'
  <2>1. CASE runs[i].key # k
    <3> HIDE DEF k
    <3> QED
      BY <1>1, <1>3, <2>1, RowKept
  <2>2. CASE runs[i].key = k
    <3>1. RowExists(k)
      BY <2>2 DEF RowExists
    <3>2. Held(k)
      BY <1>1 DEF Held, Holding, Settling
    <3>3. Row(i) /\ k.rule = proc[p].rule
      BY DEF LedgerInv, TheKey
    <3>4. k \in DOMAIN receipts'
      BY <1>2, ReceiptsKept
    <3>5. runs[i] # NoRun => runs[i].status # "none" /\ runs[i].status \notin {"running", "blocked"}
      BY <2>2, <3>2, <3>3 DEF Row, Released
    <3> HIDE DEF k, outcome
    <3> QED
      BY <1>1, <1>2, <1>3, <2>2, <3>1, <3>3, <3>4, <3>5, RulesStay DEF Row
  <2> QED
    BY <2>1, <2>2
<1>8. ASSUME NEW q \in Procs \ {p}, proc[q].pc \in Holding
      PROVE  receipts'[TheKey(q)] = receipts[TheKey(q)]
  <2>1. TheKey(q) # k
    BY <1>1, <1>8, KeysAreApart DEF AtFire, Holding, Settling
  <2>2. TheKey(q) \in DOMAIN receipts
    BY <1>8 DEF LedgerInv, Owning
  <2> QED
    BY <1>3, <2>1, <2>2
<1> QED
  BY <1>4, <1>5, <1>6, <1>7, <1>8, LedgerFollows

LEMMA AdvanceLedger ==
  ASSUME TypeInv, LedgerInv, [Next]_vars, NEW p \in Procs, Advance(p)
  PROVE  LedgerInv'
<1>1. UNCHANGED <<deleted, receipts, runs>> /\ proc[p].pc = "advance"
  BY DEF Advance
<1>2. receipts[TheKey(p)] = proc[p].outcome
  BY <1>1 DEF LedgerInv, Owning
<1>3. CASE NextFireOf(p, proc[p].outcome = "admitted")
  <2>1. Owning(p)'
    BY <1>1, <1>2, <1>3, SettledOwns DEF Settling
  <2>2. OthersStay(p)
    BY <1>3, NextFireOfEffect
  <2> QED
    BY <1>1, <2>1, <2>2, LedgerOfMove
<1>4. CASE Finish(p)
  BY <1>1, <1>4, FinishLedger
<1>5. CASE FailFire(p) /\ rules[proc[p].rule] = NoRule
  <2>1. proc[p].rule \in deleted
    BY <1>1, <1>5 DEF LedgerInv, Owning, AtFire, Holding, Settling
  <2> QED
    BY <1>1, <1>5, <2>1, FailFireLedger DEF Holding, Settling
<1> QED
  BY <1>3, <1>4, <1>5 DEF Advance

LEMMA WriteFailsLedger ==
  ASSUME TypeInv, LedgerInv, [Next]_vars, NEW p \in Procs, WriteFails(p)
  PROVE  LedgerInv'
<1>1. UNCHANGED <<receipts, runs>> /\ faults' = faults + 1
  BY DEF WriteFails
<1>2. faults' > 0
  BY <1>1 DEF TypeInv, TypeOK
<1>3. CASE Finish(p)
  BY <1>1, <1>3, FinishLedger
<1>4. CASE FailFire(p) /\ proc[p].pc \in Settling
  BY <1>1, <1>2, <1>4, FailFireLedger DEF Holding
<1> QED
  BY <1>3, <1>4 DEF WriteFails, Settling

LEMMA LaunchLedger ==
  ASSUME TypeInv, LedgerInv, [Next]_vars, NEW p \in Procs, LaunchRun(p) \/ LaunchReturns(p)
  PROVE  LedgerInv'
<1> DEFINE s == proc[p].results
           i == Head(s)
<1>1. UNCHANGED receipts /\ proc \in [Procs -> Proc] /\ proc[p] \in Proc /\ s \in Seq(RunIds)
  BY FieldsOfProc DEF LaunchRun, LaunchReturns, TypeInv, TypeOK
<1>2. proc[p].pc = "launching" => s # <<>>
  BY DEF TypeInv, Shaped
<1>3. CASE Finish(p) /\ UNCHANGED runs
  BY <1>1, <1>3, FinishLedger
<1>4. CASE ~(Finish(p) /\ UNCHANGED runs)
  <2>1. /\ s # <<>> /\ OthersStay(p) /\ proc'[p].pc \in {"launch", "launching"}
        /\ proc'[p].results \in {s, Tail(s)}
    <3>1. CASE LaunchRun(p) /\ Goto(p, "launching")
      BY <1>4, <3>1, GotoEffect DEF LaunchRun
    <3>2. CASE LaunchRun(p) /\ ~Goto(p, "launching")
      BY <1>1, <1>4, <3>2 DEF LaunchRun, OthersStay, Proc
    <3>3. CASE LaunchReturns(p)
      BY <1>1, <1>2, <3>3 DEF LaunchReturns, OthersStay, Proc
    <3> QED
      BY <3>1, <3>2, <3>3
  <2>2. i \in RunIds /\ Among(i, s) /\ \A j \in RunIds : Among(j, Tail(s)) => Among(j, s)
    BY <1>1, <2>1 DEF Among
  <2>3. Launchable(i)
    BY <2>2 DEF LedgerInv, Owning
  <2>4. /\ RowsStay
        /\ \A j \in RunIds : \/ runs'[j] = runs[j]
                            \/ (j = i /\ runs'[j].status \in {"running", "blocked"})
    <3>1. CASE UNCHANGED runs
      BY <3>1 DEF RowsStay
    <3>2. CASE ~UNCHANGED runs
      <4>1. /\ runs[i].status \in ActiveStatus
            /\ \/ runs' = [runs EXCEPT ![i].status = "running"]
               \/ runs' = [runs EXCEPT ![i].status = "blocked"]
        BY <3>2 DEF LaunchRun, LaunchReturns, ActiveStatus
      <4> HIDE DEF i
      <4> QED
        BY <2>2, <4>1, CancelledRow
    <3> QED
      BY <3>1, <3>2
  <2>5. \A j \in RunIds : Among(j, proc'[p].results) => Launchable(j)'
    <3>1. KeysKept(p)
      BY <2>4 DEF RowsStay, KeysKept
    <3>2. \A j \in RunIds : Among(j, s) => Launchable(j)'
      BY <3>1, ResultsKept
    <3> QED
      BY <2>1, <2>2, <3>2
  <2>6. Owning(p)'
    BY <2>1, <2>5 DEF Owning, AtFire, Holding, Settling, Admitting
  <2>7. ASSUME NEW j \in RunIds PROVE Row(j)'
    <3>1. CASE runs'[j] = runs[j]
      BY <1>1, <3>1, RowKept
    <3>2. CASE j = i /\ runs'[j].status \in {"running", "blocked"}
      <4>0. PICK k : k = runs[j].key
        OBVIOUS
      <4>1. Released(k) /\ runs'[j].key = k
        BY <2>3, <2>4, <3>2, <4>0 DEF Launchable, RowsStay
      <4>2. Released(k)'
        BY <4>1, ReleasedStays
      <4>3. k \in DOMAIN receipts' /\ receipts'[k] = "admitted"
        BY <4>2 DEF Released
      <4> QED
        BY <3>2, <4>1, <4>2, <4>3 DEF Row
    <3> QED
      BY <2>4, <3>1, <3>2
  <2> QED
    BY <1>1, <2>1, <2>4, <2>6, <2>7, LedgerFollows
<1> QED
  BY <1>3, <1>4

\* Steps that no trigger takes: the owner's, the clock's, the end of the process.
LEMMA LedgerAtRest ==
  ASSUME TypeInv, LedgerInv, [Next]_vars, UNCHANGED receipts, RowsStay,
         proc' = proc \/ proc' = [p \in Procs |-> Idle],
         \A i \in RunIds : runs'[i].status \in {runs[i].status, "cancelled"}
  PROVE  LedgerInv'
<1>1. ASSUME NEW p \in Procs PROVE KeysKept(p)
  BY DEF KeysKept, RowsStay
<1>2. ASSUME NEW p \in Procs PROVE Owning(p)'
  <2>1. CASE proc' = proc
    BY <1>1, <2>1, OwningKept
  <2>2. CASE proc'[p] = Idle
    BY <1>1, <2>2, OwningNothing DEF Idle, AtFire, Holding, Settling
  <2> QED
    BY <2>1, <2>2
<1>3. ASSUME NEW i \in RunIds PROVE Row(i)'
  BY RowKept DEF RowsStay
<1>4. OneRowPerKey' /\ RowsInOrder'
  BY DEF LedgerInv, OneRowPerKey, RowsInOrder, RowsStay
<1> QED
  BY <1>2, <1>3, <1>4 DEF LedgerInv

LEMMA OwnerLedger ==
  ASSUME TypeInv, LedgerInv, [Next]_vars, OwnerStep
  PROVE  LedgerInv'
<1>1. CASE UNCHANGED <<receipts, runs, proc>>
  BY <1>1, LedgerAtRest DEF RowsStay
<1>2. ASSUME NEW r \in Rules, ManualTestFire(r) PROVE LedgerInv'
  BY <1>2, ManualTestFireLedger
<1>3. ASSUME NEW i \in RunIds, StopRun(i) PROVE LedgerInv'
  <2>1. RowsStay /\ \A j \in RunIds : runs'[j].status \in {runs[j].status, "cancelled"}
    BY <1>3, CancelledRow DEF StopRun
  <2> QED
    BY <1>3, <2>1, LedgerAtRest DEF StopRun
<1> QED
  BY <1>1, <1>2, <1>3 DEF OwnerStep, CreateRule, UpdateRule, RemoveRule, ApplyScheduleOwner, DropRule

LEMMA LedgerInvariant == Spec => []LedgerInv
<1>1. ASSUME Init PROVE LedgerInv
  <2>1. \A i \in RunIds : runs[i] = NoRun
    BY <1>1 DEF Init
  <2>2. \A p \in Procs : proc[p].pc = "idle" /\ proc[p].results = <<>>
    BY <1>1 DEF Init, Idle
  <2>3. \A p \in Procs : Owning(p)
    BY <2>2 DEF Owning, AtFire, Holding, Settling, Admitting, Among
  <2> QED
    BY <2>1, <2>3 DEF LedgerInv, Row, OneRowPerKey, RowsInOrder
<1>2. ASSUME TypeInv, LedgerInv, [Next]_vars PROVE LedgerInv'
  <2>1. ASSUME NEW p \in Procs, ProcStep(p) PROVE LedgerInv'
    <3>1. CASE ReadRule(p) \/ ReadLatestRule(p)
      BY <1>2, <3>1, ReadLedger
    <3>2. CASE Claim(p)
      BY <1>2, <3>2, ClaimLedger
    <3>3. CASE ReadActiveRuns(p) \/ CancelVictim(p)
      <4>1. CASE CancelVictim(p) /\ FailFire(p)
        <5>1. UNCHANGED receipts /\ proc[p].pc = "cancel"
          BY <4>1 DEF CancelVictim
        <5>2. UNCHANGED runs
          <6>1. proc'[p].pc = "receipt" /\ proc \in [Procs -> Proc]
            BY <1>2, <4>1, FailFireEffect DEF TypeInv, TypeOK
          <6>2. ASSUME NEW i, proc' = [proc EXCEPT ![p].victims = @ \ {i},
                             ![p].pc = IF proc[p].victims = {i} THEN "admit" ELSE @]
                PROVE  FALSE
            <7>1. proc'[p].pc \in {"admit", "cancel"}
              BY <5>1, <6>1, <6>2 DEF Proc
            <7> QED
              BY <6>1, <7>1
          <6> QED
            BY <4>1, <6>2 DEF CancelVictim
        <5> QED
          BY <1>2, <4>1, <5>1, <5>2, FailFireLedger DEF Holding, Admitting
      <4>2. CASE ~(CancelVictim(p) /\ FailFire(p))
        BY <1>2, <3>3, <4>2, ReplaceLedger
      <4> QED
        BY <4>1, <4>2
    <3>4. CASE AdmitMissionAndRun(p)
      BY <1>2, <3>4, AdmitLedger
    <3>5. CASE UpdateReceipt(p)
      BY <1>2, <3>5, UpdateReceiptLedger
    <3>6. CASE Advance(p)
      BY <1>2, <3>6, AdvanceLedger
    <3>7. CASE LaunchRun(p) \/ LaunchReturns(p)
      BY <1>2, <3>7, LaunchLedger
    <3> QED
      BY <2>1, <3>1, <3>2, <3>3, <3>4, <3>5, <3>6, <3>7 DEF ProcStep
  <2>2. ASSUME NEW p \in Procs, WriteFails(p) PROVE LedgerInv'
    BY <1>2, <2>2, WriteFailsLedger
  <2>3. CASE TickStart \/ Restart
    BY <1>2, <2>3, BeginTickLedger DEF TickStart, Restart
  <2>4. CASE OwnerStep
    BY <1>2, <2>4, OwnerLedger
  <2>5. CASE ClockTick \/ Crash \/ UNCHANGED vars
    BY <1>2, <2>5, LedgerAtRest DEF ClockTick, Crash, vars, RowsStay
  <2> QED
    BY <1>2, <2>1, <2>2, <2>3, <2>4, <2>5 DEF Next
<1> QED
  BY <1>1, <1>2, TypeInvariant, PTL DEF Spec

\* ReceiptMatchesRun: a run's receipt says admitted or is still claimed; it says
\* failed only for a removed rule or a failed write, and that run was never
\* launched (admitFire settles the receipt before onTickResult starts the run).
THEOREM ReceiptsMatch == Spec => []ReceiptMatchesRun
<1>1. TypeInv /\ LedgerInv => ReceiptMatchesRun
  <2> SUFFICES ASSUME TypeInv, LedgerInv, NEW i \in Used
               PROVE  LET k == runs[i].key
                      IN  /\ k \in DOMAIN receipts
                          /\ \/ receipts[k] \in {"claimed", "admitted"}
                             \/ /\ receipts[k] = "failed"
                                /\ k.rule \in deleted \/ faults > 0
                                /\ runs[i].status \in {"queued", "cancelled"}
    BY DEF ReceiptMatchesRun
  <2>1. i \in RunIds /\ runs[i] # NoRun /\ runs[i] \in RunRow
    BY DEF Used, TypeInv, TypeOK
  <2>2. PICK k : k = runs[i].key
    OBVIOUS
  <2>3. Row(i) /\ k \in DOMAIN receipts
    BY <2>1, <2>2 DEF LedgerInv, Row
  <2>4. receipts[k] \in {"claimed", "admitted", "failed"}
    BY <2>1, <2>2, <2>3 DEF Row, TypeInv, TypeOK, ReceiptStatus, Outcome
  <2>5. receipts[k] = "failed" => k.rule \in deleted \/ faults > 0
    BY <2>1, <2>2, <2>3 DEF Row
  <2>6. receipts[k] = "failed" => runs[i].status \in {"queued", "cancelled"}
    BY <2>1, <2>2, <2>3 DEF Row, Released, RunRow, ActiveStatus
  <2> QED
    BY <2>2, <2>3, <2>4, <2>5, <2>6
<1> QED
  BY <1>1, TypeInvariant, LedgerInvariant, PTL

-----------------------------------------------------------------------------
(***************************************************************************)
(* Overlap.  The row an admission writes is the last one, and no run       *)
(* becomes active again.                                                   *)
(***************************************************************************)
ActiveStays ==
  \A i \in RunIds : runs'[i].status \in ActiveStatus =>
    runs[i].status \in ActiveStatus /\ runs'[i].key = runs[i].key
    /\ runs'[i].under = runs[i].under

LEMMA StatusWritten ==
  ASSUME TypeInv, NEW i \in RunIds, runs[i].status \in ActiveStatus,
         NEW status \in {"running", "blocked", "cancelled"},
         runs' = [runs EXCEPT ![i].status = status]
  PROVE  ActiveStays /\ RowsStay
<1>1. RowsStay
  BY CancelledRow
<1>2. ActiveStays
  BY DEF TypeInv, TypeOK, RunRow, ActiveStays
<1> QED
  BY <1>1, <1>2

LEMMA RunSteps ==
  ASSUME TypeInv, [Next]_vars
  PROVE  \/ ActiveStays /\ RowsStay
         \/ \E p \in Procs, i \in RunIds : Admits(p, i)
<1>1. ASSUME UNCHANGED runs PROVE ActiveStays /\ RowsStay
  BY <1>1 DEF ActiveStays, RowsStay
<1>2. ASSUME NEW i \in RunIds, NEW status \in {"running", "blocked", "cancelled"},
             runs[i].status \in ActiveStatus,
             runs' = [runs EXCEPT ![i].status = status]
      PROVE  ActiveStays /\ RowsStay
  BY <1>2, StatusWritten
<1>3. ASSUME NEW p \in Procs, CancelVictim(p) PROVE ActiveStays /\ RowsStay
  <2>1. proc[p].victims \subseteq RunIds
    BY FieldsOfProc DEF TypeInv, TypeOK
  <2> QED
    BY <1>1, <1>2, <1>3, <2>1 DEF CancelVictim
<1>4. ASSUME NEW p \in Procs, LaunchRun(p) \/ LaunchReturns(p) PROVE ActiveStays /\ RowsStay
  <2>1. proc[p].results \in Seq(RunIds) /\ (proc[p].pc = "launching" => proc[p].results # <<>>)
    BY FieldsOfProc DEF TypeInv, TypeOK, Shaped
  <2>2. proc[p].results # <<>> => Head(proc[p].results) \in RunIds
    BY <2>1
  <2>3. {"queued", "running"} \subseteq ActiveStatus
    BY DEF ActiveStatus
  <2> QED
    BY <1>1, <1>2, <1>4, <2>1, <2>2, <2>3 DEF LaunchRun, LaunchReturns
<1>5. ASSUME NEW i \in RunIds, StopRun(i) PROVE ActiveStays /\ RowsStay
  BY <1>2, <1>5 DEF StopRun
<1>6. ASSUME NEW p \in Procs, ProcStep(p)
      PROVE  (ActiveStays /\ RowsStay) \/ \E i \in RunIds : Admits(p, i)
  BY <1>1, <1>3, <1>4, <1>6, AdmitCases DEF ProcStep, ReadRule, ReadLatestRule, Claim,
     ReadActiveRuns, UpdateReceipt, Advance
<1>7. ASSUME OwnerStep PROVE ActiveStays /\ RowsStay
  BY <1>1, <1>5, <1>7 DEF OwnerStep, CreateRule, UpdateRule, RemoveRule, ApplyScheduleOwner,
     DropRule, ManualTestFire
<1> QED
  BY <1>1, <1>6, <1>7 DEF Next, TickStart, WriteFails, ClockTick, Crash, Restart, vars

\* NoOverlap: no run is admitted under skip or replace beside an active run of
\* its rule, be the other the tick's or a test fire's (admitMissionAndRun looks
\* the active runs up again in the mutation that writes the row).
THEOREM RunsDoNotOverlap == Spec => []NoOverlap
<1>1. ASSUME Init PROVE NoOverlap
  BY <1>1 DEF Init, NoOverlap, Used
<1>2. ASSUME TypeInv, LedgerInv, NoOverlap, [Next]_vars PROVE NoOverlap'
  <2> SUFFICES ASSUME NEW i \in RunIds, NEW j \in RunIds, i < j, runs'[i] # NoRun, runs'[j] # NoRun,
                      runs'[i].key.rule = runs'[j].key.rule,
                      runs'[i].status \in ActiveStatus, runs'[j].status \in ActiveStatus
               PROVE  runs'[j].under = "queue"
    BY DEF NoOverlap, Used
  <2>1. CASE ActiveStays
    <3>1. /\ runs[i].status \in ActiveStatus /\ runs[j].status \in ActiveStatus
          /\ runs[i].key.rule = runs[j].key.rule /\ runs'[j].under = runs[j].under
      BY <2>1 DEF ActiveStays
    <3>2. i \in Used /\ j \in Used
      BY <3>1 DEF Used, NoRun, ActiveStatus
    <3> QED
      BY <1>2, <3>1, <3>2 DEF NoOverlap
  <2>2. ASSUME NEW p \in Procs, NEW n \in RunIds, Admits(p, n) PROVE runs'[j].under = "queue"
    <3>1. /\ runs[n] = NoRun /\ proc[p].pc = "admit"
          /\ runs'[n].key = TheKey(p) /\ runs'[n].under = Policy(p).concurrency
          /\ \A m \in RunIds \ {n} : runs'[m] = runs[m]
      BY <1>2, <2>2 DEF Admits, FreshRun, TypeInv, TypeOK
    <3>2. i # n
      <4> SUFFICES ASSUME i = n PROVE FALSE
        OBVIOUS
      <4>1. runs[j] # NoRun
        BY <3>1 DEF RunIds
      <4> QED
        BY <1>2, <3>1, <4>1 DEF LedgerInv, RowsInOrder
    <3>3. CASE j = n
      <4>1. runs[i].status \in ActiveStatus /\ runs[i].key.rule = proc[p].rule
        BY <3>1, <3>2, <3>3 DEF TheKey
      <4>2. runs[i].key # NoKey
        <5>1. runs[i].key \in DOMAIN receipts
          BY <1>2, <3>1, <3>2 DEF LedgerInv, Row
        <5> QED
          BY <1>2, <5>1, NullsAssumption DEF TypeInv, TypeOK
      <4>3. i \in ActiveRuns(proc[p].rule)
        BY <4>1, <4>2 DEF ActiveRuns
      <4> QED
        BY <2>2, <3>1, <3>3, <4>3 DEF Admits
    <3>4. CASE j # n
      BY <1>2, <3>1, <3>2, <3>4 DEF NoOverlap, Used
    <3> QED
      BY <3>3, <3>4
  <2> QED
    BY <1>2, <2>1, <2>2, RunSteps
<1> QED
  BY <1>1, <1>2, TypeInvariant, LedgerInvariant, PTL DEF Spec

-----------------------------------------------------------------------------
(***************************************************************************)
(* The refinement: receipts and run rows implement TriggerLedger.          *)
(***************************************************************************)
keyOf == [i \in RunIds |-> runs[i].key]

LEMMA KeysWritten ==
  ASSUME RowsStay
  PROVE  keyOf' = keyOf
BY DEF RowsStay, keyOf

LEMMA HasRunIsRow ==
  ASSUME NEW k
  PROVE  Ledger!HasRun(k) <=> RowExists(k)
BY DEF Ledger!HasRun, RowExists

LEMMA ClaimRefines ==
  ASSUME TypeInv, LedgerInv, [Next]_vars, NEW p \in Procs, Claim(p), Claims(p)
  PROVE  Ledger!LedgerNext
<1> DEFINE k == TheKey(p)
<1>1. k \in DOMAIN receipts' /\ k \notin DOMAIN receipts /\ keyOf' = keyOf
  BY DEF Claims, Claim, keyOf
<1>2. Ledger!Claim(k)
  BY <1>1 DEF Ledger!Claim, Ledger!Claimed, Claims, keyOf
<1> HIDE DEF k
<1> QED
  BY <1>1, <1>2 DEF Ledger!LedgerNext

LEMMA SettleRefines ==
  ASSUME TypeInv, LedgerInv, [Next]_vars, NEW p \in Procs, UpdateReceipt(p)
  PROVE  Ledger!LedgerNext
<1>1. PICK k, outcome : k = TheKey(p) /\ outcome = proc[p].outcome
  OBVIOUS
<1>2. /\ proc[p].pc = "receipt" /\ receipts' = [receipts EXCEPT ![k] = outcome] /\ UNCHANGED runs
      /\ outcome \in Outcome
  BY <1>1, FieldsOfProc DEF UpdateReceipt, TypeInv, TypeOK
<1>3. /\ k \in DOMAIN receipts
      /\ receipts[k] = "claimed" \/ outcome = "failed"
      /\ outcome = "skipped" => ~RowExists(k)
      /\ outcome = "admitted" => RowExists(k)
  <2>1. proc[p].outcome = "admitted" => proc[p].run \in RunIds
    BY <1>2 DEF TypeInv, Shaped, Settling
  <2> QED
    BY <1>1, <1>2, <2>1 DEF LedgerInv, Owning, Holding, Settling, RowExists
<1>4. Ledger!Settle(k, outcome)
  BY <1>2, <1>3, HasRunIsRow DEF Ledger!Settle, Ledger!Claimed
<1>5. k \in DOMAIN receipts' /\ outcome \in {"admitted", "skipped", "failed"}
  BY <1>2, <1>3 DEF Outcome
<1> QED
  BY <1>4, <1>5 DEF Ledger!LedgerNext

LEMMA AdmitRefines ==
  ASSUME TypeInv, LedgerInv, [Next]_vars, NEW p \in Procs, NEW i \in RunIds, Admits(p, i),
         UNCHANGED receipts
  PROVE  Ledger!LedgerNext
<1>1. PICK k : k = TheKey(p)
  OBVIOUS
<1>2. /\ k \in DOMAIN receipts /\ receipts[k] = "claimed" /\ ~RowExists(k)
  BY <1>1 DEF Admits, LedgerInv, Owning, Holding, Admitting
<1>3. runs[i].key = NoKey
  BY DEF Admits, FreshRun, NoRun
<1>4. keyOf' = [keyOf EXCEPT ![i] = k]
  BY <1>1 DEF Admits, keyOf, TypeInv, TypeOK
<1>5. Ledger!Admit(k, i)
  BY <1>2, <1>3, <1>4, HasRunIsRow DEF Ledger!Admit, Ledger!Claimed, keyOf
<1> QED
  BY <1>2, <1>5 DEF Ledger!LedgerNext

\* ImplementsLedger: every store call the scheduler makes is a claim of a new
\* key, the admission of the one run of a claimed key, the settling of a receipt,
\* or nothing to the ledger (claimTriggerReceipt, updateTriggerReceipt and
\* admitMissionAndRun, under every interleaving, failed write and crash).
THEOREM LedgerImplemented == Spec => ImplementsLedger
<1>1. ASSUME Init PROVE Ledger!LedgerInit
  <2>1. keyOf = [i \in RunIds |-> NoKey]
    BY <1>1 DEF Init, keyOf, NoRun
  <2> QED
    BY <1>1, <2>1 DEF Init, Ledger!LedgerInit, keyOf
<1>2. ASSUME TypeInv, LedgerInv, [Next]_vars PROVE [Ledger!LedgerNext]_(Ledger!ledgerVars)
  <2>1. CASE UNCHANGED receipts
    <3>1. CASE RowsStay
      <4>1. keyOf' = keyOf
        BY <3>1, KeysWritten
      <4> QED
        BY <2>1, <4>1 DEF Ledger!ledgerVars, keyOf
    <3>2. ASSUME NEW p \in Procs, NEW i \in RunIds, Admits(p, i) PROVE Ledger!LedgerNext
      BY <1>2, <2>1, <3>2, AdmitRefines
    <3> QED
      BY <1>2, <3>1, <3>2, RunSteps
  <2>2. ASSUME NEW p \in Procs, Claim(p), Claims(p) PROVE Ledger!LedgerNext
    BY <1>2, <2>2, ClaimRefines
  <2>3. ASSUME NEW p \in Procs, UpdateReceipt(p) PROVE Ledger!LedgerNext
    BY <1>2, <2>3, SettleRefines
  <2> QED
    BY <1>2, <2>1, <2>2, <2>3, ReceiptSteps
<1> QED
  BY <1>1, <1>2, TypeInvariant, LedgerInvariant, PTL
     DEF Spec, ImplementsLedger, Ledger!LedgerSpec
=============================================================================
