----------------------------- MODULE GoldenPath -----------------------------
(***************************************************************************)
(* One work item of the golden path, from the proposal the owner answers   *)
(* to the accepted result: admission, the runner that drives the run in    *)
(* supervised steps, cancel, retry and resume from Telegram and Desktop,   *)
(* the evidence bar, and the sweep that resumes runs after a restart.      *)
(*                                                                         *)
(* Each action is the code between two awaits that another activity can    *)
(* interleave with.  The core is durable and its updates are atomic; what  *)
(* was read before an await may be stale after it.  The delivery of the    *)
(* messages is Outbox's; here a message is announced once its row exists.  *)
(* The delivery modes are the two the host resolves, artifact_only and     *)
(* commit_only: neither has a gate, so an accepted result is delivered.    *)
(***************************************************************************)
EXTENDS Naturals, FiniteSets

CONSTANTS
  Handlers,    \* callback updates the bridge may be handling at once
  Desktop,     \* the lifecycle route of the work API
  Sweep,       \* resumeGoldenPathRuns, at the end of a startup
  MaxSteps,    \* maxSteps of a drive
  MaxResumed,  \* DEFAULT_MAX_RESUMED_RUNS: the runs one startup resumes
  Stranded,    \* bound: live runs of other work items in front of this one at a startup
  MaxAsks,     \* bound: actions the owner takes
  MaxThrows,   \* bound: writes that fail under the runner, a handler or the sweep
  MaxCrashes   \* bound: deaths of the process

ASSUME GoldenPathAssumption ==
  /\ Desktop \notin Handlers /\ Sweep \notin Handlers /\ Desktop # Sweep
  /\ MaxSteps \in Nat \ {0} /\ MaxResumed \in Nat /\ Stranded \in Nat
  /\ MaxAsks \in Nat /\ MaxThrows \in Nat /\ MaxCrashes \in Nat

VARIABLES
  run,         \* status of the run; "none" before admission
  task,        \* status of the task; "none" before admission
  outcome,     \* the succeeded outcome and its artifact are recorded
  announced,   \* messages enqueued: purposes and discriminators
  offered,     \* actions the owner holds a valid button for
  drive,       \* the drive in flight: where it is, its step, what it has to say
  ask,         \* what each asker is doing, and the status it is about to write
  up,          \* the process is running
  lapse,       \* history: why the run may have been left, since a drive began
  asks, throws, crashes

core == <<run, task, outcome>>
owner == <<announced, offered, asks>>
vars == <<core, owner, drive, ask, up, lapse, throws, crashes>>

-----------------------------------------------------------------------------
RunStatus == {"none", "queued", "running", "blocked", "failed", "completed", "cancelled"}
Action == {"start", "cancel", "retry", "resume"}
Askers == Handlers \cup {Desktop, Sweep}
Message == ({"timeout"} \X (0..(MaxSteps - 1)))
             \cup ({"denied", "evidence", "result", "cancelled"} \X {0})
Quiet == <<"nothing", 0>>
AskPlace == {"idle", "admitted", "cancelled", "write", "tell", "redrive", "scan"} \cup Action
DrivePlace == {"idle", "read", "mark", "marked", "top", "step", "timeout", "timeoutWrite",
               "failed", "denied", "accepted", "unmet", "notify", "deliver", "ending"}

Terminal == {"completed", "failed", "cancelled"}     \* TERMINAL_RUN_STATUSES
Finished == {"completed", "cancelled"}               \* TERMINAL of the lifecycle
RetryableFailedOnly == {"failed"}                    \* mutant of Retryable
Retryable == {"blocked", "failed"}
Resumable == {"queued", "running"}

NoAsk == [at |-> "idle", next |-> "none"]
NoDrive == [at |-> "idle", step |-> 0, say |-> Quiet]

\* allowedActions of projectTransportWorkStage and of authorize's scope, without view.
Allowed ==
  (IF run = "none" THEN {} ELSE {"start"}) \cup
  (IF outcome \/ run = "cancelled" \/ task = "cancelled" THEN {}
   ELSE {"cancel"}
        \cup {a \in {"start"} : run = "none"}
        \cup {a \in {"resume"} : run = "running"}
        \cup {a \in {"retry"} : run \in Retryable})

\* enqueueAndFlush of a message with buttons: a known key keeps its first row.
Announce(message, buttons) ==
  /\ announced' = announced \cup {message}
  /\ offered' = IF message \in announced THEN offered ELSE offered \cup buttons

\* drive: a second call joins the drive in flight.  Past its last write of the
\* status the drive that is joined does nothing for the caller.
Drive ==
  IF drive.at = "idle"
  THEN drive' = [NoDrive EXCEPT !.at = "read"] /\ lapse' = lapse \cap {"reopened"}
  ELSE /\ UNCHANGED drive
       /\ lapse' = IF drive.at \in {"notify", "ending"} THEN lapse \cup {"joined"} ELSE lapse

Goes(place) == drive' = [drive EXCEPT !.at = place]
Says(message) == drive' = [drive EXCEPT !.at = "notify", !.say = message]
Proceeds(p, place) == ask' = [ask EXCEPT ![p].at = place]
Rests(p) == ask' = [ask EXCEPT ![p] = NoAsk]

Init ==
  /\ run = "none" /\ task = "none" /\ outcome = FALSE
  /\ announced = {} /\ offered = {"start", "cancel"}
  /\ drive = NoDrive
  /\ ask = [p \in Askers |-> NoAsk]
  /\ up = TRUE /\ lapse = {}
  /\ asks = 0 /\ throws = 0 /\ crashes = 0

-----------------------------------------------------------------------------
(* The runner: driveOnce *)

DriveReads ==
  /\ drive.at = "read"
  /\ Goes(IF run \in Terminal THEN "idle" ELSE "mark")
  /\ UNCHANGED <<core, owner, ask, up, lapse, throws, crashes>>

\* markRunStatus: the write does not look at the status it replaces.
Mark ==
  /\ drive.at = "mark"
  /\ run' = "running"
  /\ Goes("marked")
  /\ UNCHANGED <<task, outcome, owner, ask, up, lapse, throws, crashes>>

\* The progress message has been flushed.
Marked ==
  /\ drive.at = "marked"
  /\ Goes("top")
  /\ UNCHANGED <<core, owner, ask, up, lapse, throws, crashes>>

StartStep ==
  /\ drive.at = "top"
  /\ Goes(IF run \in Terminal THEN "ending" ELSE "step")
  /\ UNCHANGED <<core, owner, ask, up, lapse, throws, crashes>>

\* Mutant of EndStep: one step too many.
EndStepPastBudget ==
  /\ drive.at = "step"
  /\ \E result \in {"timeout", "failed", "denied", "accepted", "unmet"} :
       IF result = "unmet" /\ drive.step < MaxSteps
       THEN drive' = [drive EXCEPT !.at = "top", !.step = @ + 1]
       ELSE Goes(result)
  /\ UNCHANGED <<core, owner, ask, up, lapse, throws, crashes>>

\* The step answers or runs into its deadline; without the evidence the next
\* step begins, on the last one completeRun is called all the same.
EndStep ==
  /\ drive.at = "step"
  /\ \E result \in {"timeout", "failed", "denied", "accepted", "unmet"} :
       IF result = "unmet" /\ drive.step < MaxSteps - 1
       THEN drive' = [drive EXCEPT !.at = "top", !.step = @ + 1]
       ELSE Goes(result)
  /\ UNCHANGED <<core, owner, ask, up, lapse, throws, crashes>>

\* The timeout action of the lifecycle: refused or written, the owner is told.
TimeOut ==
  /\ drive.at = "timeout"
  /\ IF run \in Finished THEN Says(<<"timeout", drive.step>>) ELSE Goes("timeoutWrite")
  /\ UNCHANGED <<core, owner, ask, up, lapse, throws, crashes>>

WriteTimeOut ==
  /\ drive.at = "timeoutWrite"
  /\ run' = IF run \in Finished THEN run ELSE "blocked"
  /\ Says(<<"timeout", drive.step>>)
  /\ UNCHANGED <<task, outcome, owner, ask, up, lapse, throws, crashes>>

\* Mutant of NonTerminalStatus: a cancelled run is written over.
NonTerminalStatusOverCancel(status) ==
  IF run \in {"completed", "failed"} THEN run ELSE status

NonTerminalStatus(status) == IF run \in Terminal THEN run ELSE status

\* A failed step is recorded; no message goes to the owner.
WriteFailed ==
  /\ drive.at = "failed"
  /\ run' = NonTerminalStatus("failed")
  /\ Goes("ending")
  /\ UNCHANGED <<task, outcome, owner, ask, up, lapse, throws, crashes>>

WriteDenied ==
  /\ drive.at = "denied"
  /\ run' = NonTerminalStatus("blocked")
  /\ Says(<<"denied", 0>>)
  /\ UNCHANGED <<task, outcome, owner, ask, up, lapse, throws, crashes>>

\* completeRun without the evidence: blocked, whatever the status is by now.
WriteUnmet ==
  /\ drive.at = "unmet"
  /\ run' = "blocked"
  /\ Says(<<"evidence", 0>>)
  /\ UNCHANGED <<task, outcome, owner, ask, up, lapse, throws, crashes>>

\* completeRun with it: outcome, artifact and run in one update.
WriteAccepted ==
  /\ drive.at = "accepted"
  /\ outcome' = TRUE
  /\ run' = "completed"
  /\ Goes("deliver")
  /\ UNCHANGED <<task, owner, ask, up, lapse, throws, crashes>>

\* notifyDecisionNeeded offers what the stage allows when the message is built.
Notify ==
  /\ drive.at = "notify"
  /\ Announce(drive.say, Allowed \cap {"retry", "resume", "cancel"})
  /\ Goes("ending")
  /\ UNCHANGED <<core, asks, ask, up, lapse, throws, crashes>>

Deliver ==
  /\ drive.at = "deliver"
  /\ Announce(<<"result", 0>>, {})
  /\ Goes("ending")
  /\ UNCHANGED <<core, asks, ask, up, lapse, throws, crashes>>

EndDrive ==
  /\ drive.at = "ending"
  /\ drive' = NoDrive
  /\ UNCHANGED <<core, owner, ask, up, lapse, throws, crashes>>

\* A write under the drive fails: its callers drop the rejection.
DriveThrows ==
  /\ drive.at \notin {"idle", "read", "step", "timeout"}
  /\ throws < MaxThrows /\ throws' = throws + 1
  /\ drive' = NoDrive
  /\ lapse' = lapse \cup {"thrown"}
  /\ UNCHANGED <<core, owner, ask, up, crashes>>

-----------------------------------------------------------------------------
(* Telegram callbacks: authorize and what it dispatches to *)

\* The token resolves: the owner still holds it and the stage allows the action.
Tap(h, action) ==
  /\ up /\ ask[h].at = "idle"
  /\ asks < MaxAsks /\ asks' = asks + 1
  /\ action \in offered \cap Allowed
  /\ Proceeds(h, action)
  /\ UNCHANGED <<core, announced, offered, drive, up, lapse, throws, crashes>>

Admit(h) ==
  /\ ask[h].at = "start"
  /\ IF run = "none"
     THEN run' = "queued" /\ task' = "approved" /\ Proceeds(h, "admitted")
     ELSE Rests(h) /\ UNCHANGED <<run, task>>
  /\ UNCHANGED <<outcome, owner, drive, up, lapse, throws, crashes>>

\* The port's onAdmitted.
DriveAdmitted(h) ==
  /\ ask[h].at = "admitted"
  /\ Drive /\ Rests(h)
  /\ UNCHANGED <<core, owner, up, throws, crashes>>

CancelWork(h) ==
  /\ ask[h].at = "cancel"
  /\ run' = IF run \in {"none", "completed"} THEN run ELSE "cancelled"
  /\ task' = IF task = "none" THEN task ELSE "cancelled"
  /\ Proceeds(h, "cancelled")
  /\ UNCHANGED <<outcome, owner, drive, up, lapse, throws, crashes>>

\* The item's tokens are invalidated and the owner is told.
TellCancelled(h) ==
  /\ ask[h].at = "cancelled"
  /\ announced' = announced \cup {<<"cancelled", 0>>}
  /\ offered' = {}
  /\ Rests(h)
  /\ UNCHANGED <<core, asks, drive, up, lapse, throws, crashes>>

-----------------------------------------------------------------------------
(* Retry and resume: applyWorkGoldenPathLifecycleAction and its callers *)

AskDesktop(action) ==
  /\ up /\ ask[Desktop].at = "idle"
  /\ asks < MaxAsks /\ asks' = asks + 1
  /\ action \in {"retry", "resume"} /\ run # "none"
  /\ Proceeds(Desktop, action)
  /\ UNCHANGED <<core, announced, offered, drive, up, lapse, throws, crashes>>

\* The first read: the status to write is decided here.
CheckLifecycle(p) ==
  /\ ask[p].at \in {"retry", "resume"}
  /\ LET retry == ask[p].at = "retry"
     IN  IF run \in (IF retry THEN Retryable ELSE Resumable)
         THEN ask' = [ask EXCEPT ![p] = [at |-> "write",
                                         next |-> IF retry THEN "queued" ELSE run]]
         ELSE Rests(p)
  /\ UNCHANGED <<core, owner, drive, up, lapse, throws, crashes>>

\* Mutant of LifecycleStatus: the update trusts the first read.
LifecycleStatusUnchecked(next) == next

LifecycleStatus(next) == IF run \in Finished THEN run ELSE next

\* Only the Telegram caller has a message to flush before its run is driven, and
\* the Desktop route returns without driving.
WriteLifecycle(p) ==
  /\ ask[p].at = "write"
  /\ run' = LifecycleStatus(ask[p].next)
  /\ IF p = Desktop THEN Rests(p)
     ELSE Proceeds(p, IF p = Sweep THEN "redrive" ELSE "tell")
  /\ lapse' = lapse \cup {why \in {"desktop"} : p = Desktop}
                   \cup {why \in {"reopened"} : drive.at = "notify"}
  /\ UNCHANGED <<task, outcome, owner, drive, up, throws, crashes>>

TellLifecycle(h) ==
  /\ ask[h].at = "tell"
  /\ Proceeds(h, "redrive")
  /\ UNCHANGED <<core, owner, drive, up, lapse, throws, crashes>>

\* The port's onRedrive, and the sweep's call.
Redrive(p) ==
  /\ ask[p].at = "redrive"
  /\ Drive /\ Rests(p)
  /\ UNCHANGED <<core, owner, up, throws, crashes>>

\* The row of the message is not written: the callback comes again and finds a
\* status that allows no retry.
HandlerThrows(h) ==
  /\ ask[h].at = "tell"
  /\ throws < MaxThrows /\ throws' = throws + 1
  /\ Rests(h)
  /\ lapse' = lapse \cup {"thrown"}
  /\ UNCHANGED <<core, owner, drive, up, crashes>>

\* A write of the sweep fails, for this run or for one before it in the list: the
\* pass ends there.
SweepThrows ==
  /\ ask[Sweep].at \in {"scan", "resume", "write"}
  /\ throws < MaxThrows /\ throws' = throws + 1
  /\ Rests(Sweep)
  /\ lapse' = lapse \cup {"thrown"}
  /\ UNCHANGED <<core, owner, drive, up, crashes>>

-----------------------------------------------------------------------------
(* The process *)

Crash ==
  /\ up /\ crashes < MaxCrashes
  /\ crashes' = crashes + 1
  /\ up' = FALSE
  /\ drive' = NoDrive
  /\ ask' = [p \in Askers |-> NoAsk]
  /\ lapse' = lapse \cup {"crashed"}
  /\ UNCHANGED <<core, owner, throws>>

\* A candidate for the sweep with so many candidates before it in core.runs.
SweepTakes(candidate, ahead) ==
  \/ candidate /\ ahead < MaxResumed /\ Proceeds(Sweep, "resume") /\ UNCHANGED lapse
  \/ candidate /\ ahead >= MaxResumed /\ Rests(Sweep) /\ lapse' = lapse \cup {"capped"}
  \/ ~candidate /\ Rests(Sweep) /\ UNCHANGED lapse

\* Mutants of Restart and Scan: the sweep is not run, or leaves the queued runs.
RestartWithoutSweep ==
  /\ ~up /\ up' = TRUE
  /\ UNCHANGED <<core, owner, drive, ask, lapse, throws, crashes>>
ScanRunningOnly ==
  /\ ask[Sweep].at = "scan"
  /\ \E ahead \in 0..Stranded : SweepTakes(run = "running", ahead)
  /\ UNCHANGED <<core, owner, drive, up, throws, crashes>>

Restart ==
  /\ ~up /\ up' = TRUE
  /\ Proceeds(Sweep, "scan")
  /\ UNCHANGED <<core, owner, drive, lapse, throws, crashes>>

\* The runs whose driver was lost: the queued and the running ones, the first
\* MaxResumed of them.
Scan ==
  /\ ask[Sweep].at = "scan"
  /\ \E ahead \in 0..Stranded : SweepTakes(run \in Resumable, ahead)
  /\ UNCHANGED <<core, owner, drive, up, throws, crashes>>

-----------------------------------------------------------------------------
DriveStep ==
  \/ DriveReads \/ Mark \/ Marked \/ StartStep \/ EndStep
  \/ TimeOut \/ WriteTimeOut \/ WriteFailed \/ WriteDenied \/ WriteUnmet \/ WriteAccepted
  \/ Notify \/ Deliver \/ EndDrive

AskStep(p) ==
  \/ p \in Handlers /\ (Admit(p) \/ DriveAdmitted(p) \/ CancelWork(p) \/ TellCancelled(p)
                          \/ TellLifecycle(p))
  \/ CheckLifecycle(p) \/ WriteLifecycle(p) \/ Redrive(p)
  \/ p = Sweep /\ Scan

Next ==
  \/ DriveStep \/ DriveThrows
  \/ \E h \in Handlers : HandlerThrows(h) \/ \E action \in Action : Tap(h, action)
  \/ \E action \in {"retry", "resume"} : AskDesktop(action)
  \/ \E p \in Askers : AskStep(p)
  \/ SweepThrows \/ Crash \/ Restart

Spec == Init /\ [][Next]_vars

\* Node settles every await: a step has its deadline, a core update its write and
\* a flush its answer.  The server is started again.
Fairness ==
  /\ WF_vars(DriveStep)
  /\ \A p \in Askers : WF_vars(AskStep(p))
  /\ WF_vars(Restart)

FairSpec == Spec /\ Fairness

-----------------------------------------------------------------------------
TypeOK ==
  /\ run \in RunStatus /\ task \in {"none", "approved", "cancelled"} /\ outcome \in BOOLEAN
  /\ announced \subseteq Message /\ offered \subseteq Action
  /\ drive \in [at : DrivePlace, step : 0..(MaxSteps - 1), say : Message \cup {Quiet}]
  /\ ask \in [Askers -> [at : AskPlace, next : RunStatus]]
  /\ up \in BOOLEAN
  /\ lapse \subseteq {"joined", "thrown", "desktop", "capped", "crashed", "reopened"}
  /\ asks \in 0..MaxAsks /\ throws \in 0..MaxThrows /\ crashes \in 0..MaxCrashes

\* A run counts as completed exactly when its accepted result is recorded, and
\* from then on: no late cancel, retry, resume or timeout, decided on a status
\* read earlier, takes the completion back (workGoldenPathLifecycle.ts:120-140,
\* workGoldenPathService.ts:493).
CompletedIffOutcome == outcome <=> run = "completed"

\* The writes that do look at the status leave a stopped run alone: a retry or a
\* resume decided before the cancel, and the timeout, failure or denial of a step that
\* outlived it, write nothing.  A failed run is reopened by no drive at all.  The two
\* writes that do not look, markRunStatus and completeRun, may reopen a cancelled run:
\* see CancelledRunStays (workGoldenPathRunner.ts:223-269,
\* workGoldenPathLifecycle.ts:142-146).
CheckedWritesKeepStoppedRun ==
  [][/\ run = "cancelled" /\ run' # run => drive.at \in {"mark", "unmet", "accepted"}
     /\ run = "failed" /\ run' # run => \E p \in Askers : ask[p].at \in {"write", "cancel"}]_vars

\* The reasons for which the code leaves a live run without a drive.
Left == lapse \cap {"joined", "thrown", "desktop", "capped"} # {}

\* A queued or running run has a drive, or an asker about to start one; if not, a
\* retry joined a drive that was ending, a write threw under the runner, the handler
\* or the sweep, the Desktop route reopened it, or more runs were stranded than one
\* startup resumes.  For the join and the Desktop route the comments promise a driver:
\* see EveryLiveRunIsDriven (workGoldenPathRunner.ts:387-397,
\* goldenPathStartupResume.ts:61-117).
LiveRunIsDriven ==
  up /\ run \in Resumable =>
    \/ drive.at # "idle"
    \/ \E h \in Handlers : ask[h].at \in {"admitted", "tell", "redrive"}
    \/ ask[Sweep].at # "idle"
    \/ Left

\* Once its drive has ended, a blocked run leaves the owner a button to go on with,
\* through messages whose key was used before (workGoldenPathService.ts:433-466).
BlockedRunIsActionable ==
  up /\ run = "blocked" /\ drive.at = "idle" =>
    \/ "retry" \in offered \/ task = "cancelled" \/ <<"cancelled", 0>> \in announced
    \/ lapse \cap {"crashed", "thrown", "reopened"} # {}

\* A run that is queued or running comes to rest, across restarts, or was left for
\* one of the reasons above.
LiveRunSettles == run \in Resumable ~> run \notin Resumable \/ Left

-----------------------------------------------------------------------------
(* What comments and documents say, and the code does not do. *)

\* A cancelled run stays cancelled: a late runtime event "must never resurrect a
\* cancelled or failed run", and a cancellation that lands mid-step "must win over the
\* step that was already in flight" (workGoldenPathRunner.ts:226-228, FR-29).  Neither
\* markRunStatus nor completeRun looks at the status it writes over.
CancelledRunStays == [][run = "cancelled" => run' = "cancelled"]_vars

\* A live run gets a drive: the one that a retry or a resume from Desktop left queued is
\* picked up by the host that owns the runner (work/api/index.ts:186-188), and every
\* caller of drive, one that joins a drive in flight too, has its run driven to rest
\* (workGoldenPathRunner.ts:160-166).  Nothing tells the host, and a drive past its last
\* write does nothing for a caller that joins it.
EveryLiveRunIsDriven ==
  run \in Resumable ~> drive.at # "idle" \/ run \notin Resumable
=============================================================================
