--------------------------- MODULE RunSupervision ---------------------------
(***************************************************************************)
(* Launching and stopping one scheduled run.                               *)
(*                                                                         *)
(*   - the launcher: launchScheduledRunThroughSupervision, with the        *)
(*     createSession wrapper of withProviderRunInteractions inside it;     *)
(*   - the stoppers: the HTTP run stop (stopRun), the HTTP mission cancel  *)
(*     (cancelMission) and the scheduler's replacement                     *)
(*     (cancelScheduledRunThroughSupervision).                             *)
(*                                                                         *)
(* CoreStore.updateCore runs its mutator alone, so each core mutation and  *)
(* each core read is one action, and so is each call of the runtime; any   *)
(* other process may run between two of them.  A crash loses every         *)
(* launcher and stopper and keeps the core rows and the runtime sessions.  *)
(* No startup pass of the server looks at scheduled runs.                  *)
(***************************************************************************)
EXTENDS Naturals

CONSTANTS
  RunIds,      \* the run rows; each owns one mission and one launcher
  Stoppers,    \* concurrent stop, cancel and replace commands
  MaxCrashes   \* bound: process crashes in a behaviour

ASSUME SupervisionAssumption == MaxCrashes \in Nat

VARIABLES
  run,          \* persisted: run row, with its runtimeBridge metadata
  mission,      \* persisted: status of the run's mission
  interaction,  \* persisted: the run's providerInteraction metadata
  session,      \* the runtime's session for the run (outside the process)
  aborted,      \* cancelSession was accepted for the run's session
  launcher,     \* where the launch of the run has got to
  stopper,      \* where each stop command has got to
  crashes       \* crashes so far

vars == <<run, mission, interaction, session, aborted, launcher, stopper, crashes>>

-----------------------------------------------------------------------------
ActiveStatus == {"queued", "running", "blocked"}
RunStatus == ActiveStatus \cup {"none", "cancelled"}
Bridge == {"none", "launching", "started", "failed", "cancel_requested"}
RunRow == [status: RunStatus, bridge: Bridge, sessionKnown: BOOLEAN]
Interaction == {"none", "admitted", "attached", "interrupted", "ended", "cleanup"}
Session == {"none", "open", "executing", "over", "closed"}
LauncherPc == {"none", "pending", "prepared", "creating", "refused", "created",
               "closing", "closed", "unclosed", "ready", "sent", "replied",
               "failed", "done", "lost"}
StopKind == {"run", "mission", "replace"}
StopperPc == {"idle", "mission", "read", "abort", "note", "persist", "persistMission"}
StopperRow == [pc: StopperPc, run: RunIds, kind: StopKind]

NoRun == [status |-> "none", bridge |-> "none", sessionKnown |-> FALSE]

IsTerminalRunStatus(status) == status = "cancelled"

TypeOK ==
  /\ run \in [RunIds -> RunRow]
  /\ mission \in [RunIds -> {"none", "queued", "running", "cancelled"}]
  /\ interaction \in [RunIds -> Interaction]
  /\ session \in [RunIds -> Session]
  /\ aborted \in [RunIds -> BOOLEAN]
  /\ launcher \in [RunIds -> LauncherPc]
  /\ stopper \in [Stoppers -> StopperRow]
  /\ crashes \in 0..MaxCrashes

Init ==
  /\ run = [r \in RunIds |-> NoRun]
  /\ mission = [r \in RunIds |-> "none"]
  /\ interaction = [r \in RunIds |-> "none"]
  /\ session = [r \in RunIds |-> "none"]
  /\ aborted = [r \in RunIds |-> FALSE]
  /\ launcher = [r \in RunIds |-> "none"]
  /\ stopper \in [Stoppers -> {[pc |-> "idle", run |-> r, kind |-> "run"] : r \in RunIds}]
  /\ crashes = 0

-----------------------------------------------------------------------------
(***************************************************************************)
(* The launcher.                                                           *)
(***************************************************************************)
LaunchStep(r, from, to) ==
  /\ launcher[r] = from
  /\ launcher' = [launcher EXCEPT ![r] = to]

\* The scheduler admitted a fire: mission and run are written in one core
\* mutation, and the process that admitted them is about to launch the run.
Admit(r) ==
  /\ LaunchStep(r, "none", "pending")
  /\ run' = [run EXCEPT ![r] = [@ EXCEPT !.status = "queued"]]
  /\ mission' = [mission EXCEPT ![r] = "queued"]
  /\ UNCHANGED <<interaction, session, aborted, stopper, crashes>>

PrepareLaunch(r) ==
  /\ run[r].status = "queued"
  /\ run[r].bridge \notin {"launching", "started"}
  /\ LaunchStep(r, "pending", "prepared")
  /\ run' = [run EXCEPT ![r] = [@ EXCEPT !.status = "running", !.bridge = "launching"]]
  /\ mission' = [mission EXCEPT ![r] = "running"]
  /\ UNCHANGED <<interaction, session, aborted, stopper, crashes>>

SkipLaunch(r) ==
  /\ \/ run[r].status # "queued"
     \/ run[r].bridge \in {"launching", "started"}
  /\ LaunchStep(r, "pending", "done")
  /\ UNCHANGED <<run, mission, interaction, session, aborted, stopper, crashes>>

\* createSession looks the run up before it calls the runtime: an ended run
\* gets no session; one in a visible, unarchived channel first records its
\* admission, and gets no session when it ended, or its channel was archived,
\* since the lookup; any other goes to the runtime as it is.  From here on the
\* run is hosted iff it has an interaction record.
AdmitSession(r) ==
  /\ \/ /\ LaunchStep(r, "prepared", "failed")
        /\ UNCHANGED interaction
     \/ /\ ~IsTerminalRunStatus(run[r].status)
        /\ LaunchStep(r, "prepared", "creating")
        /\ \/ interaction' = [interaction EXCEPT ![r] = "admitted"]
           \/ UNCHANGED interaction
  /\ UNCHANGED <<run, mission, session, aborted, stopper, crashes>>

Hosted(r) == interaction[r] # "none"

CreateSession(r) ==
  /\ LaunchStep(r, "creating", IF Hosted(r) THEN "created" ELSE "ready")
  /\ session' = [session EXCEPT ![r] = "open"]
  /\ UNCHANGED <<run, mission, interaction, aborted, stopper, crashes>>

\* The runtime refused, or its answer was lost after it created the session.
CreateSessionFails(r) ==
  /\ LaunchStep(r, "creating", IF Hosted(r) THEN "refused" ELSE "failed")
  /\ \E made \in {"none", "open"} : session' = [session EXCEPT ![r] = made]
  /\ UNCHANGED <<run, mission, interaction, aborted, stopper, crashes>>

InterruptAdmission(r) ==
  /\ LaunchStep(r, "refused", "failed")
  /\ interaction' = [interaction EXCEPT ![r] = "interrupted"]
  /\ UNCHANGED <<run, mission, session, aborted, stopper, crashes>>

\* Mutant of CanAttach: the status of the run is not compared again.
CanAttachEndedRun(r) == interaction[r] = "admitted"

\* The session is bound to the run only while the run is still in the status
\* the wrapper saw before it called the runtime, and the admission is ours.
CanAttach(r) == run[r].status = "running" /\ interaction[r] = "admitted"

\* The channel may be archived just after the session is bound.
AttachSession(r) ==
  /\ CanAttach(r)
  /\ \E stillHosted \in BOOLEAN :
       LaunchStep(r, "created", IF stillHosted THEN "ready" ELSE "closing")
  /\ run' = [run EXCEPT ![r] = [@ EXCEPT !.bridge = "started", !.sessionKnown = TRUE]]
  /\ interaction' = [interaction EXCEPT ![r] = "attached"]
  /\ UNCHANGED <<mission, session, aborted, stopper, crashes>>

\* Mutant of RefuseSession: the session is returned although nothing names it.
RefuseSessionSilently(r) ==
  /\ LaunchStep(r, "created", "ready")
  /\ UNCHANGED <<run, mission, interaction, session, aborted, stopper, crashes>>

\* The run ended meanwhile, or its channel was archived.
RefuseSession(r) ==
  /\ LaunchStep(r, "created", "closing")
  /\ UNCHANGED <<run, mission, interaction, session, aborted, stopper, crashes>>

CloseUnattachedSession(r) ==
  /\ \/ /\ LaunchStep(r, "closing", "closed")
        /\ session' = [session EXCEPT ![r] = "closed"]
     \/ /\ LaunchStep(r, "closing", "unclosed")
        /\ UNCHANGED session
  /\ UNCHANGED <<run, mission, interaction, aborted, stopper, crashes>>

\* Mutants of EndedRecord: a failed close is recorded as an ended session; the
\* launcher's own word is recorded.
EndedRecordOptimistic(r) == "ended"
EndedRecordRaw(r) == launcher[r]

\* When closeSession failed, the record says that cleanup is required.
EndedRecord(r) == IF launcher[r] = "closed" THEN "ended" ELSE "cleanup"

RecordUnattachedSession(r) ==
  /\ \/ LaunchStep(r, "closed", "failed")
     \/ LaunchStep(r, "unclosed", "failed")
  /\ interaction' = [interaction EXCEPT ![r] = EndedRecord(r)]
  /\ UNCHANGED <<run, mission, session, aborted, stopper, crashes>>

\* A runtime that cancelled the session before the prompt came may drop it.
SendMessage(r) ==
  /\ LaunchStep(r, "ready", "sent")
  /\ \/ session' = [session EXCEPT ![r] = "executing"]
     \/ aborted[r] /\ UNCHANGED session
  /\ UNCHANGED <<run, mission, interaction, aborted, stopper, crashes>>

\* The runtime's own step: the provider's turn is over.
TurnEnds(r) ==
  /\ session[r] = "executing"
  /\ session' = [session EXCEPT ![r] = "over"]
  /\ UNCHANGED <<run, mission, interaction, aborted, launcher, stopper, crashes>>

\* The reply comes after the turn; the request errs (the client's idle timeout,
\* a lost connection) at any time, and the turn may well go on.
MessageReturns(r) ==
  /\ \/ session[r] = "over" /\ LaunchStep(r, "sent", "replied")
     \/ LaunchStep(r, "sent", "failed")
  /\ UNCHANGED <<run, mission, interaction, session, aborted, stopper, crashes>>

\* Mutant of FinishLaunch: a run cancelled during the turn is not spared.
FinishLaunchAnyway(r) ==
  /\ LaunchStep(r, "replied", "done")
  /\ run' = [run EXCEPT ![r] = [@ EXCEPT !.status = "running",
                                         !.bridge = "started",
                                         !.sessionKnown = TRUE]]
  /\ UNCHANGED <<mission, interaction, session, aborted, stopper, crashes>>

FinishLaunch(r) ==
  /\ LaunchStep(r, "replied", "done")
  /\ run' = IF IsTerminalRunStatus(run[r].status)
            THEN run
            ELSE [run EXCEPT ![r] = [@ EXCEPT !.status = "running",
                                              !.bridge = "started",
                                              !.sessionKnown = TRUE]]
  /\ UNCHANGED <<mission, interaction, session, aborted, stopper, crashes>>

\* Mutant of BlockLaunch: the failure is not written to the bridge.
BlockLaunchSilently(r) ==
  /\ LaunchStep(r, "failed", "done")
  /\ run' = IF IsTerminalRunStatus(run[r].status)
            THEN run
            ELSE [run EXCEPT ![r] = [@ EXCEPT !.status = "blocked"]]
  /\ UNCHANGED <<mission, interaction, session, aborted, stopper, crashes>>

BlockLaunch(r) ==
  /\ LaunchStep(r, "failed", "done")
  /\ run' = IF IsTerminalRunStatus(run[r].status)
            THEN run
            ELSE [run EXCEPT ![r] = [@ EXCEPT !.status = "blocked", !.bridge = "failed"]]
  /\ UNCHANGED <<mission, interaction, session, aborted, stopper, crashes>>

LaunchProgress(r) ==
  \/ PrepareLaunch(r) \/ SkipLaunch(r)
  \/ AdmitSession(r) \/ CreateSession(r)
  \/ CreateSessionFails(r) \/ InterruptAdmission(r)
  \/ AttachSession(r) \/ RefuseSession(r)
  \/ CloseUnattachedSession(r) \/ RecordUnattachedSession(r)
  \/ SendMessage(r) \/ MessageReturns(r)
  \/ FinishLaunch(r) \/ BlockLaunch(r)

-----------------------------------------------------------------------------
(***************************************************************************)
(* The stoppers.  A command remembers only the run it is about: what it    *)
(* saw decides which step it takes next, and the next step re-reads only   *)
(* whether the run is terminal.                                            *)
(***************************************************************************)
StopGoto(s, pc) == stopper' = [stopper EXCEPT ![s].pc = pc]

StopCommand(s, r, kind) ==
  /\ stopper[s].pc = "idle"
  /\ run[r].status # "none"
  /\ stopper' = [stopper EXCEPT ![s] =
       [pc |-> IF kind = "mission" THEN "mission" ELSE "read",
        run |-> r, kind |-> kind]]
  /\ UNCHANGED <<run, mission, interaction, session, aborted, launcher, crashes>>

\* Mutant of AfterStopRun: a blocker does not end the mission's cancellation.
AfterStopRunIgnoresBlockers(s, stoppable) ==
  LET kind == stopper[s].kind IN
  stopper' = [stopper EXCEPT ![s] = [@ EXCEPT
    !.pc = CASE kind = "run" -> "idle"
             [] kind = "mission" -> "persistMission"
             [] kind = "replace" -> "mission",
    !.kind = IF kind = "replace" THEN "mission" ELSE kind]]

\* What follows stopRun, by who called it: a blocker ends every command; the
\* replacement goes on to cancelMission; cancelMission goes on to its own row.
AfterStopRun(s, stoppable) ==
  LET kind == stopper[s].kind IN
  IF ~stoppable \/ kind = "run" THEN StopGoto(s, "idle")
  ELSE IF kind = "mission" THEN StopGoto(s, "persistMission")
  ELSE stopper' = [stopper EXCEPT ![s] = [@ EXCEPT !.pc = "mission", !.kind = "mission"]]

\* cancelMission: the snapshot decides whether there is a run to stop.
ReadMission(s) ==
  LET r == stopper[s].run IN
  /\ stopper[s].pc = "mission"
  /\ \/ mission[r] = "cancelled" /\ StopGoto(s, "idle")
     \/ /\ mission[r] # "cancelled"
        /\ StopGoto(s, IF run[r].status \in ActiveStatus THEN "read" ELSE "persistMission")
  /\ UNCHANGED <<run, mission, interaction, session, aborted, launcher, crashes>>

\* stopRun: the snapshot decides whether the runtime must be asked first.
ReadRun(s) ==
  LET row == run[stopper[s].run] IN
  /\ stopper[s].pc = "read"
  /\ \/ IsTerminalRunStatus(row.status) /\ AfterStopRun(s, TRUE)
     \/ row.status = "running" /\ ~row.sessionKnown /\ AfterStopRun(s, FALSE)
     \/ row.status = "running" /\ row.sessionKnown /\ StopGoto(s, "abort")
     \/ row.status \in {"queued", "blocked"} /\ StopGoto(s, "persist")
  /\ UNCHANGED <<run, mission, interaction, session, aborted, launcher, crashes>>

\* cancelSession is accepted: the runtime ends the turn it is executing.
AbortSession(s) ==
  LET r == stopper[s].run IN
  /\ stopper[s].pc = "abort"
  /\ StopGoto(s, "note")
  /\ aborted' = [aborted EXCEPT ![r] = TRUE]
  /\ session' = IF session[r] = "executing"
                THEN [session EXCEPT ![r] = "over"]
                ELSE session
  /\ UNCHANGED <<run, mission, interaction, launcher, crashes>>

\* recordEnded, the wrapper's note behind an accepted cancelSession.
NoteAbort(s) ==
  LET r == stopper[s].run IN
  /\ stopper[s].pc = "note"
  /\ StopGoto(s, "persist")
  /\ interaction' = IF interaction[r] = "attached"
                    THEN [interaction EXCEPT ![r] = "ended"]
                    ELSE interaction
  /\ UNCHANGED <<run, mission, session, aborted, launcher, crashes>>

AbortSessionFails(s) ==
  /\ stopper[s].pc = "abort"
  /\ AfterStopRun(s, FALSE)
  /\ UNCHANGED <<run, mission, interaction, session, aborted, launcher, crashes>>

PersistRunCancellation(s) ==
  LET r == stopper[s].run IN
  /\ stopper[s].pc = "persist"
  /\ AfterStopRun(s, TRUE)
  /\ run' = IF IsTerminalRunStatus(run[r].status)
            THEN run
            ELSE [run EXCEPT ![r] = [@ EXCEPT
                   !.status = "cancelled",
                   !.bridge = IF run[r].bridge = "none" THEN "none" ELSE "cancel_requested"]]
  /\ UNCHANGED <<mission, interaction, session, aborted, launcher, crashes>>

PersistMissionCancellation(s) ==
  /\ stopper[s].pc = "persistMission"
  /\ StopGoto(s, "idle")
  /\ mission' = [mission EXCEPT ![stopper[s].run] = "cancelled"]
  /\ UNCHANGED <<run, interaction, session, aborted, launcher, crashes>>

StopProgress(s) ==
  \/ ReadMission(s) \/ ReadRun(s)
  \/ AbortSession(s) \/ AbortSessionFails(s) \/ NoteAbort(s)
  \/ PersistRunCancellation(s) \/ PersistMissionCancellation(s)

-----------------------------------------------------------------------------
\* The process dies: no launch in flight is resumed, no command is answered.
Crash ==
  /\ crashes < MaxCrashes
  /\ crashes' = crashes + 1
  /\ launcher' = [r \in RunIds |->
                   IF launcher[r] \in {"none", "done"} THEN launcher[r] ELSE "lost"]
  /\ stopper' = [s \in Stoppers |-> [stopper[s] EXCEPT !.pc = "idle"]]
  /\ UNCHANGED <<run, mission, interaction, session, aborted>>

Next ==
  \/ \E r \in RunIds : Admit(r) \/ LaunchProgress(r) \/ TurnEnds(r)
  \/ \E s \in Stoppers : StopProgress(s)
  \/ \E s \in Stoppers, r \in RunIds, kind \in StopKind : StopCommand(s, r, kind)
  \/ Crash

Spec == Init /\ [][Next]_vars

\* The event loop runs every pending continuation and every runtime request
\* ends, by its reply or by the client's timeouts (60 s to create a session,
\* 120 s of silence in a turn); nobody has to issue a command, crash, or be
\* done with a turn.
Fairness ==
  /\ \A r \in RunIds : WF_vars(LaunchProgress(r))
  /\ \A s \in Stoppers : WF_vars(StopProgress(s))

FairSpec == Spec /\ Fairness

-----------------------------------------------------------------------------
(***************************************************************************)
(* Properties.                                                             *)
(***************************************************************************)

\* A mission is cancelled only when the run it owns is terminal, although
\* cancelMission decides from a snapshot, stopRun from a second one, and the
\* launch sets the mission to running in between.
MissionCancelledAfterRun ==
  \A r \in RunIds : mission[r] = "cancelled" => IsTerminalRunStatus(run[r].status)

\* The bridge of a cancelled run says so for ever: no step of a launch that was
\* in flight (attach, finish, block) writes over the stop command's record.
CancelledRunKeepsItsBridge ==
  \A r \in RunIds :
    IsTerminalRunStatus(run[r].status) => run[r].bridge \in {"none", "cancel_requested"}

\* When a hosted run's session has been sent the prompt, the run row names the
\* session, so that a stop command can find it (crashes included).
PromptedSessionIsReachable ==
  \A r \in RunIds :
    session[r] \in {"executing", "over"} /\ Hosted(r) => run[r].sessionKnown

\* A session recorded as ended with nothing left to clean up is closed, or its
\* cancellation was accepted by the runtime.
EndedRecordIsTrue ==
  \A r \in RunIds : interaction[r] = "ended" => session[r] = "closed" \/ aborted[r]

\* The rows implement the abstract life cycle: one admission, one start, no
\* step out of a terminal status, the mission after its run.
Lifecycle == INSTANCE RunLifecycle
  WITH runStatus <- [r \in RunIds |-> run[r].status], missionStatus <- mission
ImplementsLifecycle == Lifecycle!LifecycleSpec

\* Unless the process dies, a launch does not stay launching for ever.
LaunchSettles ==
  \A r \in RunIds :
    run[r].bridge = "launching" ~> (run[r].bridge # "launching" \/ launcher[r] = "lost")

\* SPEC-094 requirement 32 and SPEC-096 requirement 7: a blocked run may be
\* marked cancelled without asking the runtime because nothing executes for it.
BlockedRunIsNotExecuting ==
  [][\A r \in RunIds :
       run[r].status = "blocked" /\ run'[r].status = "cancelled"
       => session[r] # "executing"]_vars

=============================================================================
