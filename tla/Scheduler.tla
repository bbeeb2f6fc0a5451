----------------------------- MODULE Scheduler -----------------------------
(***************************************************************************)
(* The schedule-rule scheduler: the tick that turns due rules into         *)
(* missions and runs, the manual test fire, the owner's edits of rules,    *)
(* and the process that stops and starts under all of them.                *)
(*                                                                         *)
(* The schedule store runs each of its operations alone, and the core      *)
(* store each core mutation alone, so every store call is one action;      *)
(* between two calls of a tick anything else may happen.  The loop keeps   *)
(* one tick in flight, its launches included; manual test fires run beside *)
(* it.  A crash loses both and keeps the two stores.                       *)
(*                                                                         *)
(* Time is counted in units of which a daily rule's period has Period, its *)
(* occurrences falling on the multiples of Period; time 0 is "never".      *)
(* What happens to a launched run is in RunSupervision; here a run starts, *)
(* may block, and may be cancelled.                                        *)
(***************************************************************************)
EXTENDS Naturals, Sequences, FiniteSets

CONSTANTS
  Rules,        \* rule ids
  NoRule,       \* what getRule answers for a rule that is not there
  NoKey,        \* the key of a run row that is not there
  Policies,     \* the schedules and execution policies a rule may have
  Period,       \* a daily rule fires at the multiples of Period
  RetryDelay,   \* RETRY_FIXED_DELAY_MS
  RetryCap,     \* RETRY_EXPONENTIAL_MAX_DELAY_MS
  MaxFireAll,   \* most missed occurrences one startup tick fires
  CrashMidway,  \* FALSE: the process only stops while nothing is in flight
  MaxTime,      \* bound: the clock
  MaxRuns,      \* bound: run rows, enough for every fire up to MaxTime
  MaxEdits,     \* bound: owner edits of rules, their creation included
  MaxManual,    \* bound: manual test fires
  MaxFaults,    \* bound: failed writes of the schedule store under a trigger
  MaxCrashes    \* bound: crashes

PolicyType ==
  [kind: {"daily", "once"},
   fireAt: Nat,                                  \* a once rule's time
   misfire: {"skip", "fire_once", "fire_all"},
   concurrency: {"skip", "queue", "replace"},
   maxAttempts: Nat,
   backoff: {"none", "fixed", "exponential"},
   pauseAfter: Nat]                              \* 0 is null: never pause

ASSUME SchedulerAssumption ==
  /\ Rules # {}
  /\ Policies \subseteq PolicyType
  /\ {Period, MaxFireAll} \subseteq Nat \ {0}
  /\ {RetryDelay, RetryCap, MaxTime, MaxRuns, MaxEdits, MaxManual, MaxFaults, MaxCrashes}
       \subseteq Nat
  /\ CrashMidway \in BOOLEAN

VARIABLES
  now,       \* the clock
  up,        \* the process runs
  bootAt,    \* when this process started
  rules,     \* persisted: the rules
  deleted,   \* persisted: deletedRuleIds
  receipts,  \* persisted: receipt status by idempotency key
  runs,      \* persisted: the run rows of the core state
  proc,      \* the tick and the manual test fire in flight
  edits,     \* owner edits so far
  faults,    \* failed writes so far
  crashes    \* crashes so far

vars == <<now, up, bootAt, rules, deleted, receipts, runs, proc, edits, faults, crashes>>
clockVars == <<now, up, bootAt, faults, crashes>>

-----------------------------------------------------------------------------
NoFire == 0
Time == 0..MaxTime
RunIds == 1..MaxRuns
Procs == {"tick", "manual"}

NoRetry == [attempt |-> 0, at |-> 0, orig |-> 0]
Retry == [attempt: Nat, at: Nat, orig: Nat]

Rule ==
  [policy: Policies, rev: Nat, enabled: BOOLEAN, next: Nat, failures: Nat,
   retry: Retry,
   made: Nat,        \* stands for createdAt: which owner edit created the rule
   stamp: Nat]       \* stands for updatedAt: which owner edit wrote the rule

Fire == [kind: {"fire", "retry", "manual"}, time: Nat, attempt: Nat]
Key == [rule: Rules, rev: Nat, kind: {"fire", "retry", "manual"}, time: Nat, attempt: Nat]

ActiveStatus == {"queued", "running", "blocked"}
\* Of the rule the run was admitted for: the concurrency policy it had (under,
\* for NoOverlap), and which creation it came from (made, for OneRunPerRevision).
NoRun == [status |-> "none", key |-> NoKey, under |-> "skip", made |-> 0]
RunRow == [status: ActiveStatus \cup {"none", "cancelled"},
           key: Key \cup {NoKey},
           under: {"skip", "queue", "replace"},
           made: Nat]

ASSUME NullsAssumption == NoRule \notin Rule /\ NoKey \notin Key

Outcome == {"skipped", "admitted", "failed"}
ReceiptStatus == Outcome \cup {"claimed"}

Idle ==
  [pc |-> "idle", at |-> 0, startup |-> FALSE, todo |-> {},
   rule |-> CHOOSE r \in Rules : TRUE, snap |-> NoRule, fires |-> <<>>,
   victims |-> {}, run |-> 0, outcome |-> "skipped", results |-> <<>>]

Proc ==
  [pc: {"idle", "rules", "fires", "claim", "replace", "cancel", "admit",
        "receipt", "advance", "launch", "launching"},
   at: Time,                  \* the time the tick began at: actualFireAt
   startup: BOOLEAN,
   todo: SUBSET Rules,        \* rules the tick has not come to
   rule: Rules,
   snap: Rule \cup {NoRule},  \* the rule as getRule returned it for this fire
   fires: Seq(Fire),          \* due fires not yet settled
   victims: SUBSET RunIds,    \* active runs replacement has yet to cancel
   run: 0..MaxRuns,           \* the run admitted for the fire at hand
   outcome: Outcome,
   results: Seq(RunIds)]      \* admitted runs, to be launched after the tick

TypeOK ==
  /\ now \in Time /\ bootAt \in Time
  /\ up \in BOOLEAN
  /\ rules \in [Rules -> Rule \cup {NoRule}]
  /\ deleted \in SUBSET Rules
  /\ DOMAIN receipts \subseteq Key
  /\ \A k \in DOMAIN receipts : receipts[k] \in ReceiptStatus
  /\ runs \in [RunIds -> RunRow]
  /\ proc \in [Procs -> Proc]
  /\ edits \in 0..MaxEdits /\ faults \in 0..MaxFaults /\ crashes \in 0..MaxCrashes

Init ==
  /\ now = 0 /\ bootAt = 0 /\ up = TRUE
  /\ rules = [r \in Rules |-> NoRule]
  /\ deleted = {}
  /\ receipts = [k \in {} |-> "claimed"]
  /\ runs = [i \in RunIds |-> NoRun]
  /\ proc = [p \in Procs |-> Idle]     \* nothing for the startup tick to do
  /\ edits = 0 /\ faults = 0 /\ crashes = 0

-----------------------------------------------------------------------------
(***************************************************************************)
(* The evaluator: when a rule fires.                                       *)
(***************************************************************************)
\* Mutant of NextOccurrence: the candidate is compared with <, not with <=.
NextOccurrenceFrom(t) == ((t + Period - 1) \div Period) * Period

NextOccurrence(t) == (t \div Period + 1) * Period

\* A once rule whose time has come, and a disabled rule, have no next fire.
ComputeNextFireAt(policy, enabled, from) ==
  IF ~enabled THEN NoFire
  ELSE IF policy.kind = "daily" THEN NextOccurrence(from)
  ELSE IF policy.fireAt > from THEN policy.fireAt ELSE NoFire

ComputeNextFireAfter(policy, fired) ==
  IF policy.kind = "once" THEN NoFire ELSE NextOccurrence(fired)

Occurrence(t) == [kind |-> "fire", time |-> t, attempt |-> 0]

Least(m, n) == IF m < n THEN m ELSE n

\* A pending retry hides the rule's next fire, due or not.  At startup a daily
\* rule with fire_all yields every occurrence since nextFireAt, the oldest
\* MaxFireAll of them; in every other case the one at nextFireAt.
CollectDueFires(rule, at, startup) ==
  IF ~rule.enabled THEN <<>>
  ELSE IF rule.retry # NoRetry
  THEN IF rule.retry.at <= at
       THEN <<[kind |-> "retry", time |-> rule.retry.orig, attempt |-> rule.retry.attempt]>>
       ELSE <<>>
  ELSE IF rule.next = NoFire \/ rule.next > at THEN <<>>
  ELSE IF startup /\ rule.policy.misfire = "fire_all" /\ rule.policy.kind = "daily"
  THEN [i \in 1..Least((at - rule.next) \div Period + 1, MaxFireAll) |->
          Occurrence(rule.next + (i - 1) * Period)]
  ELSE <<Occurrence(rule.next)>>

IsDue(r) == rules[r] # NoRule /\ CollectDueFires(rules[r], now, FALSE) # <<>>

\* 2 ** n.
Doubled[n \in Nat] == IF n = 0 THEN 1 ELSE 2 * Doubled[n - 1]

RetryAt(policy, at, attempt) ==
  CASE policy.backoff = "none" -> at
    [] policy.backoff = "fixed" -> at + RetryDelay
    [] policy.backoff = "exponential" ->
         at + Least(RetryDelay * Doubled[attempt - 1], RetryCap)

-----------------------------------------------------------------------------
(***************************************************************************)
(* What a settled fire does to the rule that fired.                        *)
(***************************************************************************)
\* The next fire is counted from the fire that is settled, not from the clock.
NextAdvanced(rule, fire) ==
  [rule EXCEPT !.next = IF rule.enabled
                        THEN ComputeNextFireAfter(rule.policy, fire.time)
                        ELSE NoFire]

\* buildFailureAdvanceUpdate: retry while the policy allows it, else count the
\* failure and pause the rule at the threshold.
FailedRule(rule, fire, at) ==
  LET attempt == fire.attempt + 1
      failures == rule.failures + 1
      advanced == NextAdvanced(rule, fire)
  IN  IF attempt <= rule.policy.maxAttempts
      THEN [advanced EXCEPT !.retry = [attempt |-> attempt,
                                       at |-> RetryAt(rule.policy, at, attempt),
                                       orig |-> fire.time]]
      ELSE IF rule.policy.pauseAfter # 0 /\ failures >= rule.policy.pauseAfter
      THEN [advanced EXCEPT !.failures = failures, !.retry = NoRetry,
                            !.enabled = FALSE, !.next = NoFire]
      ELSE [advanced EXCEPT !.failures = failures, !.retry = NoRetry]

\* Mutants of AdvancedRule: a skipped fire is retried; an admitted retry stays
\* pending.
AdvancedRuleRetryingSkips(rule, fire, at, outcome, atStartup) ==
  IF outcome = "admitted"
  THEN [NextAdvanced(rule, fire) EXCEPT !.failures = 0, !.retry = NoRetry]
  ELSE FailedRule(rule, fire, at)
AdvancedRuleKeepingRetry(rule, fire, at, outcome, atStartup) ==
  IF outcome = "failed" THEN FailedRule(rule, fire, at) ELSE NextAdvanced(rule, fire)

\* advanceRuleAfterFire.  A fire skipped at startup leaves the pending retry.
AdvancedRule(rule, fire, at, outcome, atStartup) ==
  LET advanced == NextAdvanced(rule, fire)
  IN  CASE outcome = "failed" -> FailedRule(rule, fire, at)
        [] outcome = "admitted" -> [advanced EXCEPT !.failures = 0, !.retry = NoRetry]
        [] outcome = "skipped" ->
             IF fire.kind = "retry" /\ ~atStartup
             THEN [advanced EXCEPT !.retry = NoRetry]
             ELSE advanced

\* Mutant of SavedRule: the trigger's rule is written whatever is there.
SavedRuleRegardless(current, snap, advanced) == advanced

\* An owner's edit made since the tick read the rule takes precedence.
SavedRule(current, snap, advanced) == IF current = snap THEN advanced ELSE current

-----------------------------------------------------------------------------
(***************************************************************************)
(* A tick (p = "tick") and a manual test fire (p = "manual"), store call   *)
(* by store call.                                                          *)
(***************************************************************************)
Goto(p, pc) == proc' = [proc EXCEPT ![p].pc = pc]
Finish(p) == proc' = [proc EXCEPT ![p] = Idle]

TheFire(p) == Head(proc[p].fires)
TheKey(p) ==
  [rule |-> proc[p].rule, rev |-> proc[p].snap.rev, kind |-> TheFire(p).kind,
   time |-> TheFire(p).time, attempt |-> TheFire(p).attempt]
Policy(p) == proc[p].snap.policy

\* A startup tick settles the fires of a rule with misfire skip as skipped.
SkipsFire(p) == proc[p].startup /\ Policy(p).misfire = "skip"

\* Mutant of ActiveRuns: a blocked run does not count.
ActiveRunsUnblocked(r) ==
  {i \in RunIds : runs[i].key # NoKey /\ runs[i].key.rule = r
                  /\ runs[i].status \in ActiveStatus \ {"blocked"}}

ActiveRuns(r) ==
  {i \in RunIds : runs[i].key # NoKey /\ runs[i].key.rule = r
                  /\ runs[i].status \in ActiveStatus}

\* The fire at hand is done with; an admitted run is kept for its launch.
NextFireOf(p, admitted) ==
  LET results == IF admitted THEN Append(proc[p].results, proc[p].run)
                 ELSE proc[p].results
  IN  proc' = [proc EXCEPT
        ![p] = [Idle EXCEPT !.pc = IF p = "tick" THEN "fires" ELSE "launch",
                            !.at = proc[p].at, !.startup = proc[p].startup,
                            !.todo = proc[p].todo, !.rule = proc[p].rule,
                            !.fires = Tail(proc[p].fires), !.results = results]]

\* listRules.
BeginTick(startup) ==
  proc' = [proc EXCEPT
    !["tick"] = [Idle EXCEPT !.pc = "rules", !.at = now, !.startup = startup,
                             !.todo = {r \in Rules : rules[r] # NoRule}]]

\* The interval timer; it does nothing while a tick is in flight.
TickStart ==
  /\ up /\ proc["tick"].pc = "idle"
  /\ BeginTick(FALSE)
  /\ UNCHANGED <<clockVars, rules, deleted, receipts, runs, edits>>

\* getRule, and the fires that are due at the time the tick began.
ReadRule(p) ==
  /\ proc[p].pc = "rules"
  /\ \/ /\ proc[p].todo = {}
        /\ Goto(p, "launch")
     \/ \E r \in proc[p].todo :
          proc' = [proc EXCEPT
            ![p].todo = @ \ {r}, ![p].rule = r, ![p].pc = "fires",
            ![p].fires = IF rules[r] = NoRule THEN <<>>
                         ELSE CollectDueFires(rules[r], proc[p].at, proc[p].startup)]
  /\ UNCHANGED <<clockVars, rules, deleted, receipts, runs, edits>>

\* getRule again, before each fire; whether the rule is still enabled, or the
\* fire still due, is not asked again.
ReadLatestRule(p) ==
  LET latest == rules[proc[p].rule] IN
  /\ proc[p].pc = "fires"
  /\ \/ /\ proc[p].fires = <<>>
        /\ Goto(p, "rules")
     \/ /\ proc[p].fires # <<>> /\ latest = NoRule
        /\ proc' = [proc EXCEPT ![p].fires = Tail(@)]
     \/ /\ proc[p].fires # <<>> /\ latest # NoRule
        /\ proc' = [proc EXCEPT ![p].pc = "claim", ![p].snap = latest]
  /\ UNCHANGED <<clockVars, rules, deleted, receipts, runs, edits>>

\* The owner asks for a test fire: getRule, and a fire of its own.
ManualTestFire(r) ==
  /\ up /\ proc["manual"].pc = "idle"
  /\ rules[r] # NoRule
  /\ Cardinality({k \in DOMAIN receipts : k.kind = "manual"}) < MaxManual
  /\ proc' = [proc EXCEPT
       !["manual"] = [Idle EXCEPT !.pc = "claim", !.at = now, !.rule = r, !.snap = rules[r],
                        !.fires = <<[kind |-> "manual", time |-> now, attempt |-> 0]>>]]
  /\ UNCHANGED <<clockVars, rules, deleted, receipts, runs, edits>>

\* Mutant of Claim: the receipts are not searched for the key.
ClaimAgain(p) ==
  /\ proc[p].pc = "claim"
  /\ receipts' = [x \in DOMAIN receipts \cup {TheKey(p)} |->
                    IF x = TheKey(p) THEN "claimed" ELSE receipts[x]]
  /\ Goto(p, IF SkipsFire(p) THEN "receipt"
             ELSE IF Policy(p).concurrency = "replace" THEN "replace" ELSE "admit")
  /\ UNCHANGED <<clockVars, rules, deleted, runs, edits>>

\* claimTriggerReceipt.  A removed rule's claim throws, which ends the whole
\* tick; a key already claimed is a duplicate, and the rule is not advanced.
Claim(p) ==
  LET k == TheKey(p) IN
  /\ proc[p].pc = "claim"
  /\ \/ /\ proc[p].rule \in deleted
        /\ Finish(p)
        /\ UNCHANGED receipts
     \/ /\ proc[p].rule \notin deleted
        /\ k \in DOMAIN receipts
        /\ NextFireOf(p, FALSE)
        /\ UNCHANGED receipts
     \/ /\ proc[p].rule \notin deleted
        /\ k \notin DOMAIN receipts
        /\ receipts' = [x \in DOMAIN receipts \cup {k} |->
                          IF x = k THEN "claimed" ELSE receipts[x]]
        /\ Goto(p, IF SkipsFire(p) THEN "receipt"
                   ELSE IF Policy(p).concurrency = "replace" THEN "replace" ELSE "admit")
  /\ UNCHANGED <<clockVars, rules, deleted, runs, edits>>

ReadActiveRuns(p) ==
  LET victims == ActiveRuns(proc[p].rule) IN
  /\ proc[p].pc = "replace"
  /\ proc' = [proc EXCEPT ![p].victims = victims,
                          ![p].pc = IF victims = {} THEN "admit" ELSE "cancel"]
  /\ UNCHANGED <<clockVars, rules, deleted, receipts, runs, edits>>

\* Mutant of FailFire: the outcome is the answer of a claim, not of a receipt.
FailFireDuplicate(p) == proc' = [proc EXCEPT ![p].pc = "receipt", ![p].outcome = "duplicate"]

FailFire(p) == proc' = [proc EXCEPT ![p].pc = "receipt", ![p].outcome = "failed"]

\* replaceActiveRun.  Only a running run can refuse: its session is not known
\* or the runtime does not cancel it.
CancelVictim(p) ==
  /\ proc[p].pc = "cancel"
  /\ \E i \in proc[p].victims :
       \/ /\ runs' = IF runs[i].status \in ActiveStatus
                     THEN [runs EXCEPT ![i].status = "cancelled"]
                     ELSE runs
          /\ proc' = [proc EXCEPT ![p].victims = @ \ {i},
                                  ![p].pc = IF proc[p].victims = {i} THEN "admit" ELSE @]
       \/ /\ runs[i].status = "running"
          /\ FailFire(p)
          /\ UNCHANGED runs
  /\ UNCHANGED <<clockVars, rules, deleted, receipts, edits>>

FreshRun(i) == runs[i] = NoRun /\ \A j \in 1..(i - 1) : runs[j] # NoRun

\* One core mutation: the active runs are looked up again, the target agent is
\* resolved (it may be gone), and the mission and its run are written.
AdmitMissionAndRun(p) ==
  LET active == ActiveRuns(proc[p].rule) # {}
      concurrency == Policy(p).concurrency IN
  /\ proc[p].pc = "admit"
  /\ \/ /\ active /\ concurrency = "skip"
        /\ Goto(p, "receipt")
        /\ UNCHANGED runs
     \/ /\ active /\ concurrency = "replace"
        /\ FailFire(p)
        /\ UNCHANGED runs
     \/ /\ ~active \/ concurrency = "queue"
        /\ FailFire(p)                       \* no active agent to assign
        /\ UNCHANGED runs
     \/ /\ ~active \/ concurrency = "queue"
        /\ \E i \in RunIds :
             /\ FreshRun(i)
             /\ runs' = [runs EXCEPT ![i] = [status |-> "queued", key |-> TheKey(p),
                                             under |-> concurrency,
                                             made |-> proc[p].snap.made]]
             /\ proc' = [proc EXCEPT ![p].pc = "receipt", ![p].outcome = "admitted",
                                     ![p].run = i]
  /\ UNCHANGED <<clockVars, rules, deleted, receipts, edits>>

UpdateReceipt(p) ==
  /\ proc[p].pc = "receipt"
  /\ receipts' = [receipts EXCEPT ![TheKey(p)] = proc[p].outcome]
  /\ IF p = "manual" THEN NextFireOf(p, proc[p].outcome = "admitted") ELSE Goto(p, "advance")
  /\ UNCHANGED <<clockVars, rules, deleted, runs, edits>>

\* A rule removed meanwhile makes the advance throw: within admitFire the fire
\* is then recorded as failed and the advance tried again; when that throws
\* too, or in skipFire, the tick ends, and the runs it admitted with it.
Advance(p) ==
  LET r == proc[p].rule
      advanced == AdvancedRule(proc[p].snap, TheFire(p), proc[p].at,
                               proc[p].outcome, SkipsFire(p)) IN
  /\ proc[p].pc = "advance"
  /\ \/ /\ rules[r] # NoRule
        /\ rules' = [rules EXCEPT ![r] = SavedRule(@, proc[p].snap, advanced)]
        /\ NextFireOf(p, proc[p].outcome = "admitted")
     \/ /\ rules[r] = NoRule
        /\ IF proc[p].outcome = "failed" \/ SkipsFire(p) THEN Finish(p) ELSE FailFire(p)
        /\ UNCHANGED rules
  /\ UNCHANGED <<clockVars, deleted, receipts, runs, edits>>

\* Mutant of WriteFails: a trigger whose receipt is not written is taken back to
\* its claim.
WriteFailsUnclaimed(p) ==
  /\ faults < MaxFaults /\ faults' = faults + 1
  /\ proc[p].pc = "receipt"
  /\ receipts' = [k \in DOMAIN receipts \ {TheKey(p)} |-> receipts[k]]
  /\ Goto(p, "claim")
  /\ UNCHANGED <<now, up, bootAt, crashes, rules, deleted, runs, edits>>

\* A write of the schedule store fails and leaves its file as it was.  Under
\* the claim, in skipFire and where a failure is being recorded, the tick ends;
\* elsewhere in admitFire the fire is recorded as failed, its run admitted or
\* not, and its rule advanced like that of a failed fire.
WriteFails(p) ==
  /\ faults < MaxFaults /\ faults' = faults + 1
  /\ \/ /\ proc[p].pc = "claim"
        /\ proc[p].rule \notin deleted /\ TheKey(p) \notin DOMAIN receipts
        /\ Finish(p)
     \/ /\ proc[p].pc \in {"receipt", "advance"}
        /\ IF proc[p].outcome = "failed" \/ SkipsFire(p) THEN Finish(p) ELSE FailFire(p)
  /\ UNCHANGED <<now, up, bootAt, crashes, rules, deleted, receipts, runs, edits>>

\* onTickResult: each admitted run is launched in turn; one that is no longer
\* queued is skipped.
LaunchRun(p) ==
  LET i == Head(proc[p].results) IN
  /\ proc[p].pc = "launch"
  /\ \/ /\ proc[p].results = <<>>
        /\ Finish(p)
        /\ UNCHANGED runs
     \/ /\ proc[p].results # <<>>
        /\ runs[i].status = "queued"
        /\ runs' = [runs EXCEPT ![i].status = "running"]
        /\ Goto(p, "launching")
     \/ /\ proc[p].results # <<>>
        /\ runs[i].status # "queued"
        /\ proc' = [proc EXCEPT ![p].results = Tail(@)]
        /\ UNCHANGED runs
  /\ UNCHANGED <<clockVars, rules, deleted, receipts, edits>>

\* The launch is over: the run keeps running, or it failed to start.
LaunchReturns(p) ==
  LET i == Head(proc[p].results) IN
  /\ proc[p].pc = "launching"
  /\ proc' = [proc EXCEPT ![p].results = Tail(@), ![p].pc = "launch"]
  /\ \/ UNCHANGED runs
     \/ /\ runs[i].status = "running"
        /\ runs' = [runs EXCEPT ![i].status = "blocked"]
  /\ UNCHANGED <<clockVars, rules, deleted, receipts, edits>>

ProcStep(p) ==
  \/ ReadRule(p) \/ ReadLatestRule(p)
  \/ Claim(p) \/ ReadActiveRuns(p) \/ CancelVictim(p)
  \/ AdmitMissionAndRun(p) \/ UpdateReceipt(p) \/ Advance(p)
  \/ LaunchRun(p) \/ LaunchReturns(p)

-----------------------------------------------------------------------------
(***************************************************************************)
(* The owner.                                                              *)
(***************************************************************************)
Edit == up /\ edits < MaxEdits /\ edits' = edits + 1

\* An id of one's own choice may be that of an existing rule, never a removed
\* one's.  The rule is then another one, and its revisions begin at 1 again.
CreateRule(r, policy, enabled) ==
  /\ Edit
  /\ r \notin deleted
  /\ rules' = [rules EXCEPT ![r] =
       [policy |-> policy, rev |-> 1, enabled |-> enabled,
        next |-> ComputeNextFireAt(policy, enabled, now),
        failures |-> 0, retry |-> NoRetry, made |-> edits + 1, stamp |-> edits + 1]]
  /\ UNCHANGED <<clockVars, deleted, receipts, runs, proc>>

\* Mutants of UpdatedRule: a new policy inherits the pending retry; the next
\* fire is computed as if the rule were enabled.
UpdatedRuleKeepingRetry(rule, policy, enable) ==
  LET enabled == IF enable = "keep" THEN rule.enabled ELSE enable = "on"
  IN  [policy |-> policy, rev |-> IF policy = rule.policy THEN rule.rev ELSE rule.rev + 1,
       enabled |-> enabled, next |-> ComputeNextFireAt(policy, enabled, now),
       failures |-> rule.failures, retry |-> rule.retry,
       made |-> rule.made, stamp |-> edits + 1]
UpdatedRuleStillFiring(rule, policy, enable) ==
  [policy |-> policy, rev |-> IF policy = rule.policy THEN rule.rev ELSE rule.rev + 1,
   enabled |-> IF enable = "keep" THEN rule.enabled ELSE enable = "on",
   next |-> ComputeNextFireAt(policy, TRUE, now),
   failures |-> 0, retry |-> NoRetry, made |-> rule.made, stamp |-> edits + 1]

\* enable \in {"on", "off", "keep"}; the same policy and "keep" is an edit of
\* the title.  Every edit computes the next fire anew, from the clock.
UpdatedRule(rule, policy, enable) ==
  LET changed == policy # rule.policy
      enabled == IF enable = "keep" THEN rule.enabled ELSE enable = "on"
      reset == changed \/ enable = "on"
  IN  [policy |-> policy, rev |-> IF changed THEN rule.rev + 1 ELSE rule.rev,
       enabled |-> enabled, next |-> ComputeNextFireAt(policy, enabled, now),
       failures |-> IF reset THEN 0 ELSE rule.failures,
       retry |-> IF reset THEN NoRetry ELSE rule.retry,
       made |-> rule.made, stamp |-> edits + 1]

UpdateRule(r, policy, enable) ==
  /\ Edit
  /\ rules[r] # NoRule
  /\ rules' = [rules EXCEPT ![r] = UpdatedRule(@, policy, enable)]
  /\ UNCHANGED <<clockVars, deleted, receipts, runs, proc>>

DropRule(r) ==
  /\ up
  /\ rules[r] # NoRule /\ ~rules[r].enabled
  /\ rules' = [rules EXCEPT ![r] = NoRule]
  /\ deleted' = deleted \cup {r}
  /\ UNCHANGED <<clockVars, receipts, runs, proc, edits>>

\* DELETE: only a disabled rule without receipts.
RemoveRule(r) ==
  /\ \A k \in DOMAIN receipts : k.rule # r
  /\ DropRule(r)

\* Owner cleanup: a disabled rule with nothing being admitted and nothing
\* active; its receipts stay.
ApplyScheduleOwner(r) ==
  /\ \A k \in DOMAIN receipts : k.rule = r => receipts[k] # "claimed"
  /\ ActiveRuns(r) = {}
  /\ DropRule(r)

\* Stop run, or mission cancel, from the run's own controls.
StopRun(i) ==
  /\ up
  /\ runs[i].status \in ActiveStatus
  /\ runs' = [runs EXCEPT ![i].status = "cancelled"]
  /\ UNCHANGED <<clockVars, rules, deleted, receipts, proc, edits>>

OwnerStep ==
  \/ \E r \in Rules :
       \/ \E policy \in Policies :
            \/ \E enabled \in BOOLEAN : CreateRule(r, policy, enabled)
            \/ \E enable \in {"on", "off", "keep"} : UpdateRule(r, policy, enable)
       \/ RemoveRule(r) \/ ApplyScheduleOwner(r) \/ ManualTestFire(r)
  \/ \E i \in RunIds : StopRun(i)

-----------------------------------------------------------------------------
(***************************************************************************)
(* The clock and the process.                                              *)
(***************************************************************************)
ClockTick ==
  /\ now < MaxTime
  /\ now' = now + 1
  /\ UNCHANGED <<up, bootAt, faults, crashes, rules, deleted, receipts, runs, proc, edits>>

Crash ==
  /\ up /\ crashes < MaxCrashes
  /\ CrashMidway \/ \A p \in Procs : proc[p].pc = "idle"
  /\ up' = FALSE
  /\ crashes' = crashes + 1
  /\ proc' = [p \in Procs |-> Idle]
  /\ UNCHANGED <<now, bootAt, faults, rules, deleted, receipts, runs, edits>>

\* Mutant of Restart: receipts left claimed are settled as failed unseen.
RestartFailingClaims ==
  /\ ~up
  /\ up' = TRUE /\ bootAt' = now
  /\ receipts' = [k \in DOMAIN receipts |->
                    IF receipts[k] = "claimed" THEN "failed" ELSE receipts[k]]
  /\ BeginTick(TRUE)
  /\ UNCHANGED <<now, faults, crashes, rules, deleted, runs, edits>>

\* The loop starts with the startup tick; nothing else looks back.
Restart ==
  /\ ~up
  /\ up' = TRUE /\ bootAt' = now
  /\ BeginTick(TRUE)
  /\ UNCHANGED <<now, faults, crashes, rules, deleted, receipts, runs, edits>>

Next ==
  \/ TickStart
  \/ \E p \in Procs : ProcStep(p) \/ WriteFails(p)
  \/ OwnerStep
  \/ ClockTick \/ Crash \/ Restart

Spec == Init /\ [][Next]_vars

\* The interval timer goes off again and again, the event loop runs every
\* continuation, a launch returns (the client has timeouts), a stopped process
\* is started again; the owner owes nothing.
Fairness ==
  /\ WF_vars(TickStart)
  /\ \A p \in Procs : WF_vars(ProcStep(p))
  /\ WF_vars(Restart)

FairSpec == Spec /\ Fairness

-----------------------------------------------------------------------------
(***************************************************************************)
(* Properties.                                                             *)
(***************************************************************************)
Used == {i \in RunIds : runs[i] # NoRun}

\* A rule's scheduled occurrence, its startup misfire and its retries are one.
SameOccurrence(k, l) ==
  /\ k.rule = l.rule /\ k.time = l.time
  /\ k.kind # "manual" /\ l.kind # "manual"

\* An occurrence is given one run within one revision of the rule, whatever is
\* retried, crashed, restarted or fired by hand: except that a run whose trigger is recorded as
\* failed, because a write failed after its admission, is followed by a retry's.
\* A rule created anew under the same id is another rule.
SameRevision(i, j) ==
  /\ SameOccurrence(runs[i].key, runs[j].key)
  /\ runs[i].key.rev = runs[j].key.rev
  /\ runs[i].made = runs[j].made

OneRunPerRevision ==
  \A i, j \in Used :
    i < j /\ SameRevision(i, j)
    => faults > 0 /\ receipts[runs[i].key] = "failed" /\ runs[j].key.kind = "retry"

\* The receipt of a trigger that has a run says admitted, or is still claimed;
\* it says failed only when the rule was removed, or a write failed, before the
\* trigger was done: then its run is not launched.
ReceiptMatchesRun ==
  \A i \in Used :
    LET k == runs[i].key
    IN  /\ k \in DOMAIN receipts
        /\ \/ receipts[k] \in {"claimed", "admitted"}
           \/ /\ receipts[k] = "failed"
              /\ k.rule \in deleted \/ faults > 0
              /\ runs[i].status \in {"queued", "cancelled"}

\* No run is admitted under skip or replace beside an active run of its rule,
\* whoever admitted the other one: the tick or a manual test fire.
NoOverlap ==
  \A i, j \in Used :
    (/\ i < j /\ runs[i].key.rule = runs[j].key.rule
     /\ {runs[i].status, runs[j].status} \subseteq ActiveStatus)
    => runs[j].under = "queue"

\* A retry is claimed only behind the failure it retries: a receipt of the
\* occurrence's previous attempt, the fire itself before the first, says failed.
RetryFollowsFailure ==
  \A k \in DOMAIN receipts :
    k.kind = "retry" =>
      \E l \in DOMAIN receipts :
        /\ SameOccurrence(k, l)
        /\ l.attempt = k.attempt - 1
        /\ receipts[l] = "failed"

\* A pending retry is one the rule's present policy allows, although the
\* failure was handled under the policy the tick had read.
RetryWithinPolicy ==
  \A r \in Rules :
    rules[r] # NoRule /\ rules[r].retry # NoRetry
    => rules[r].retry.attempt \in 1..rules[r].policy.maxAttempts

\* A disabled rule has no next fire, whichever of the owner, the pause after
\* failures or a late advance wrote it last.
DisabledHasNoNextFire ==
  \A r \in Rules :
    rules[r] # NoRule /\ ~rules[r].enabled => rules[r].next = NoFire

\* What the owner disabled or removed, only the owner brings back: a trigger
\* that was in flight never does.
OwnerPrevails ==
  [][\A r \in Rules :
       /\ (rules[r] # NoRule /\ ~rules[r].enabled /\ rules'[r] # NoRule /\ rules'[r].enabled
           => edits' = edits + 1)
       /\ (rules[r] = NoRule /\ rules'[r] # NoRule
           => r \notin deleted /\ edits' = edits + 1)]_vars

\* A settled fire never sends its rule back to an occurrence that was claimed
\* before: it would be a duplicate, and the rule stuck on it.  Nor does a settled
\* retry, except that of an occurrence missed before this start of the process:
\* the startup tick may have claimed the missed ones after it before its retry.
RetriesMissed(r) ==
  /\ proc["tick"].pc = "advance" /\ proc["tick"].rule = r
  /\ TheFire("tick").kind = "retry" /\ TheFire("tick").time < bootAt

NextFireIsUnclaimed ==
  [][\A r \in Rules :
       (/\ rules[r] # NoRule /\ rules'[r] # NoRule
        /\ rules'[r].next # rules[r].next /\ rules'[r].next # NoFire
        /\ ~RetriesMissed(r))
       => [rule |-> r, rev |-> rules'[r].rev, kind |-> "fire",
           time |-> rules'[r].next, attempt |-> 0] \notin DOMAIN receipts]_vars

\* The receipts and the run rows implement the trigger ledger.
Ledger == INSTANCE TriggerLedger
  WITH ledger <- receipts, keyOf <- [i \in RunIds |-> runs[i].key]
ImplementsLedger == Ledger!LedgerSpec

\* A rule that is due does not stay due for ever: every due fire and every due
\* retry is settled, so that the next one is reached.
DueRuleIsHandled == \A r \in Rules : IsDue(r) ~> ~IsDue(r)
=============================================================================
