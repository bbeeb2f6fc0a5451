----------------------- MODULE RunSupervision_proofs -----------------------
(***************************************************************************)
(* RunSupervision for every set of runs and stop commands and any number   *)
(* of crashes.                                                             *)
(***************************************************************************)
EXTENDS RunSupervision, TLAPS

-----------------------------------------------------------------------------
(***************************************************************************)
(* Types: what each kind of update does to the one variable it is about.   *)
(***************************************************************************)

\* A launch only moves between its own places.
LEMMA LaunchStepType ==
  ASSUME TypeOK, NEW r \in RunIds, NEW from, NEW to \in LauncherPc, LaunchStep(r, from, to)
  PROVE  launcher' \in [RunIds -> LauncherPc]
BY DEF TypeOK, LaunchStep

\* So does a stop command, which keeps its run and its kind.
LEMMA StopGotoType ==
  ASSUME TypeOK, NEW s \in Stoppers, NEW pc \in StopperPc, StopGoto(s, pc)
  PROVE  stopper' \in [Stoppers -> StopperRow]
BY DEF TypeOK, StopGoto, StopperRow

\* What follows stopRun keeps the command's run, too.
LEMMA AfterStopRunType ==
  ASSUME TypeOK, NEW s \in Stoppers, NEW stoppable \in BOOLEAN, AfterStopRun(s, stoppable)
  PROVE  stopper' \in [Stoppers -> StopperRow]
<1>1. CASE StopGoto(s, "idle")
  BY <1>1, StopGotoType DEF StopperPc
<1>2. CASE StopGoto(s, "persistMission")
  BY <1>2, StopGotoType DEF StopperPc
<1>3. CASE stopper' = [stopper EXCEPT ![s] = [@ EXCEPT !.pc = "mission", !.kind = "mission"]]
  BY <1>3 DEF TypeOK, StopperRow, StopperPc, StopKind
<1> QED
  BY <1>1, <1>2, <1>3 DEF AfterStopRun

\* The fields of a run row are written one by one.
LEMMA RunRowType ==
  ASSUME NEW row \in RunRow,
         NEW status \in RunStatus, NEW bridge \in Bridge, NEW known \in BOOLEAN
  PROVE  /\ [row EXCEPT !.status = status] \in RunRow
         /\ [row EXCEPT !.bridge = bridge] \in RunRow
         /\ [row EXCEPT !.status = status, !.bridge = bridge] \in RunRow
         /\ [row EXCEPT !.bridge = bridge, !.sessionKnown = known] \in RunRow
         /\ [row EXCEPT !.status = status, !.bridge = bridge, !.sessionKnown = known]
              \in RunRow
BY DEF RunRow

-----------------------------------------------------------------------------
\* The run, the mission and every other variable of RunSupervision keep their
\* types: no launch, stop or crash writes a status the code does not know.
THEOREM TypeCorrect == Spec => []TypeOK
<1>1. Init => TypeOK
  BY SupervisionAssumption DEF Init, TypeOK, NoRun, RunRow, RunStatus, ActiveStatus,
     Bridge,
     Interaction, Session, LauncherPc, StopperRow, StopperPc, StopKind
<1>2. TypeOK /\ [Next]_vars => TypeOK'
  <2> SUFFICES ASSUME TypeOK, [Next]_vars PROVE TypeOK'
    OBVIOUS
  <2>1. ASSUME NEW r \in RunIds, Admit(r) PROVE TypeOK'
    BY <2>1, LaunchStepType, RunRowType DEF Admit, TypeOK, LauncherPc, RunStatus,
       ActiveStatus, Bridge
  <2>2. ASSUME NEW r \in RunIds, PrepareLaunch(r) PROVE TypeOK'
    BY <2>2, LaunchStepType, RunRowType DEF PrepareLaunch, TypeOK, LauncherPc,
       RunStatus, ActiveStatus, Bridge
  <2>3. ASSUME NEW r \in RunIds, SkipLaunch(r) PROVE TypeOK'
    BY <2>3, LaunchStepType DEF SkipLaunch, TypeOK, LauncherPc
  <2>4. ASSUME NEW r \in RunIds, AdmitSession(r) PROVE TypeOK'
    BY <2>4, LaunchStepType DEF AdmitSession, TypeOK, LauncherPc, Interaction
  <2>5. ASSUME NEW r \in RunIds, CreateSession(r) PROVE TypeOK'
    BY <2>5, LaunchStepType DEF CreateSession, TypeOK, LauncherPc, Session
  <2>6. ASSUME NEW r \in RunIds, CreateSessionFails(r) PROVE TypeOK'
    BY <2>6, LaunchStepType DEF CreateSessionFails, TypeOK, LauncherPc, Session
  <2>7. ASSUME NEW r \in RunIds, InterruptAdmission(r) PROVE TypeOK'
    BY <2>7, LaunchStepType DEF InterruptAdmission, TypeOK, LauncherPc, Interaction
  <2>8. ASSUME NEW r \in RunIds, AttachSession(r) PROVE TypeOK'
    BY <2>8, LaunchStepType, RunRowType DEF AttachSession, TypeOK, LauncherPc,
       RunStatus, Bridge, Interaction
  <2>9. ASSUME NEW r \in RunIds, RefuseSession(r) PROVE TypeOK'
    BY <2>9, LaunchStepType DEF RefuseSession, TypeOK, LauncherPc
  <2>10. ASSUME NEW r \in RunIds, CloseUnattachedSession(r) PROVE TypeOK'
    BY <2>10, LaunchStepType DEF CloseUnattachedSession, TypeOK, LauncherPc, Session
  <2>11. ASSUME NEW r \in RunIds, RecordUnattachedSession(r) PROVE TypeOK'
    BY <2>11, LaunchStepType DEF RecordUnattachedSession, TypeOK, LauncherPc,
       EndedRecord, Interaction
  <2>12. ASSUME NEW r \in RunIds, SendMessage(r) PROVE TypeOK'
    BY <2>12, LaunchStepType DEF SendMessage, TypeOK, LauncherPc, Session
  <2>13. ASSUME NEW r \in RunIds, TurnEnds(r) PROVE TypeOK'
    BY <2>13 DEF TurnEnds, TypeOK, Session
  <2>14. ASSUME NEW r \in RunIds, MessageReturns(r) PROVE TypeOK'
    BY <2>14, LaunchStepType DEF MessageReturns, TypeOK, LauncherPc
  <2>15. ASSUME NEW r \in RunIds, FinishLaunch(r) PROVE TypeOK'
    BY <2>15, LaunchStepType, RunRowType DEF FinishLaunch, TypeOK, LauncherPc,
       RunStatus, ActiveStatus, Bridge
  <2>16. ASSUME NEW r \in RunIds, BlockLaunch(r) PROVE TypeOK'
    BY <2>16, LaunchStepType, RunRowType DEF BlockLaunch, TypeOK, LauncherPc, RunStatus,
       ActiveStatus, Bridge
  <2>17. ASSUME NEW s \in Stoppers, NEW r \in RunIds, NEW kind \in StopKind,
                StopCommand(s, r, kind)
         PROVE TypeOK'
    BY <2>17 DEF StopCommand, TypeOK, StopperRow, StopperPc
  <2>18. ASSUME NEW s \in Stoppers, ReadMission(s) PROVE TypeOK'
    BY <2>18, StopGotoType DEF ReadMission, TypeOK, StopperPc, StopperRow
  <2>19. ASSUME NEW s \in Stoppers, ReadRun(s) PROVE TypeOK'
    BY <2>19, StopGotoType, AfterStopRunType DEF ReadRun, TypeOK, StopperPc, StopperRow
  <2>20. ASSUME NEW s \in Stoppers, AbortSession(s) PROVE TypeOK'
    BY <2>20, StopGotoType DEF AbortSession, TypeOK, StopperPc, StopperRow, Session
  <2>21. ASSUME NEW s \in Stoppers, AbortSessionFails(s) PROVE TypeOK'
    BY <2>21, AfterStopRunType DEF AbortSessionFails, TypeOK, StopperPc, StopperRow
  <2>22. ASSUME NEW s \in Stoppers, NoteAbort(s) PROVE TypeOK'
    BY <2>22, StopGotoType DEF NoteAbort, TypeOK, StopperPc, StopperRow, Interaction
  <2>23. ASSUME NEW s \in Stoppers, PersistRunCancellation(s) PROVE TypeOK'
    BY <2>23, AfterStopRunType, RunRowType DEF PersistRunCancellation, TypeOK,
       StopperPc, StopperRow, RunStatus, Bridge
  <2>24. ASSUME NEW s \in Stoppers, PersistMissionCancellation(s) PROVE TypeOK'
    BY <2>24, StopGotoType DEF PersistMissionCancellation, TypeOK, StopperPc, StopperRow
  <2>25. CASE Crash
    BY <2>25, SupervisionAssumption DEF Crash, TypeOK, LauncherPc, StopperRow, StopperPc
  <2>26. CASE UNCHANGED vars
    BY <2>26 DEF vars, TypeOK
  <2> QED
    BY <2>1, <2>2, <2>3, <2>4, <2>5, <2>6, <2>7, <2>8, <2>9, <2>10, <2>11,
       <2>12, <2>13, <2>14, <2>15, <2>16, <2>17, <2>18, <2>19, <2>20, <2>21,
       <2>22, <2>23, <2>24, <2>25, <2>26 DEF Next, LaunchProgress, StopProgress
<1> QED
  BY <1>1, <1>2, PTL DEF Spec

-----------------------------------------------------------------------------
(***************************************************************************)
(* The inductive invariants.                                               *)
(***************************************************************************)

\* Where a launch is when it has written the run row as running.
UnderWay == {"prepared", "creating", "refused", "created", "closing", "closed", "unclosed",
             "ready", "sent", "replied", "failed"}

\* Rows exist from the admission on, and a launch under way found the run
\* queued: only a stop command has written its status since.
RowsFollowLaunch ==
  \A r \in RunIds :
    /\ launcher[r] = "none" => /\ run[r].status = "none" /\ run[r].bridge = "none"
                              /\ mission[r] = "none"
    /\ launcher[r] # "none" => run[r].status # "none" /\ mission[r] # "none"
    /\ launcher[r] \in UnderWay => run[r].status \in {"running", "cancelled"}

\* A command is about a run that exists, and comes to its mission's row only
\* when that run is terminal.
CommandsFollowRows ==
  \A s \in Stoppers :
    /\ stopper[s].pc # "idle" => run[stopper[s].run].status # "none"
    /\ stopper[s].pc = "persistMission" => IsTerminalRunStatus(run[stopper[s].run].status)

StatusInv ==
  /\ RowsFollowLaunch
  /\ CommandsFollowRows
  /\ MissionCancelledAfterRun
  /\ CancelledRunKeepsItsBridge

\* A launch has no session before it asks for one, is refused or closes one only
\* for a hosted run, closes only a session that it will not prompt, and prompts a
\* hosted one only when the run row names it.
SessionsFollowLaunch ==
  \A r \in RunIds :
    /\ launcher[r] \in {"none", "pending", "prepared", "creating"} => session[r] = "none"
    /\ launcher[r] \in {"refused", "created", "closing", "closed", "unclosed"} => Hosted(r)
    /\ launcher[r] \in {"ready", "sent", "replied"} /\ Hosted(r) => run[r].sessionKnown
    /\ launcher[r] = "closed" => session[r] = "closed"
    /\ session[r] = "closed" => launcher[r] \in {"closed", "failed", "done", "lost"}

\* The note of an accepted cancelSession comes behind it.
NotesFollowAborts ==
  \A s \in Stoppers : stopper[s].pc = "note" => aborted[stopper[s].run]

SessionInv ==
  /\ SessionsFollowLaunch
  /\ NotesFollowAborts
  /\ PromptedSessionIsReachable
  /\ EndedRecordIsTrue

-----------------------------------------------------------------------------
\* A stop command that moves leaves the other commands, and its own run, alone.
LEMMA StopGotoStep ==
  ASSUME TypeOK, NEW s \in Stoppers, NEW pc \in StopperPc, StopGoto(s, pc)
  PROVE  /\ \A t \in Stoppers : stopper'[t].run = stopper[t].run
         /\ \A t \in Stoppers : t # s => stopper'[t] = stopper[t]
         /\ stopper'[s].pc = pc
BY DEF TypeOK, StopGoto, StopperRow

\* The same for what follows stopRun, which goes nowhere behind a blocker.
LEMMA AfterStopRunStep ==
  ASSUME TypeOK, NEW s \in Stoppers, AfterStopRun(s, TRUE) \/ AfterStopRun(s, FALSE)
  PROVE  /\ \A t \in Stoppers : stopper'[t].run = stopper[t].run
         /\ \A t \in Stoppers : t # s => stopper'[t] = stopper[t]
         /\ stopper'[s].pc \in {"idle", "mission", "persistMission"}
<1>1. CASE StopGoto(s, "idle")
  BY <1>1, StopGotoStep DEF StopperPc
<1>2. CASE StopGoto(s, "persistMission")
  BY <1>2, StopGotoStep DEF StopperPc
<1>3. CASE stopper' = [stopper EXCEPT ![s] = [@ EXCEPT !.pc = "mission", !.kind = "mission"]]
  BY <1>3 DEF TypeOK, StopperRow
<1> QED
  BY <1>1, <1>2, <1>3 DEF AfterStopRun

\* Behind a blocker every command ends.
LEMMA AfterBlockerStep ==
  ASSUME TypeOK, NEW s \in Stoppers, AfterStopRun(s, FALSE)
  PROVE  stopper'[s].pc = "idle"
BY StopGotoStep DEF AfterStopRun, StopperPc

\* Statuses and bridges, step by step: the launch writes neither over a stop
\* command's record, and no command passes a run that goes on.
LEMMA StatusInvIsInductive ==
  ASSUME TypeOK, StatusInv, [Next]_vars
  PROVE  StatusInv'
<1> USE DEF TypeOK, StatusInv, RowsFollowLaunch, CommandsFollowRows,
    MissionCancelledAfterRun, CancelledRunKeepsItsBridge, IsTerminalRunStatus
<1>1. ASSUME NEW r \in RunIds, Admit(r) PROVE StatusInv'
  BY <1>1 DEF Admit, LaunchStep, UnderWay, RunRow
<1>2. ASSUME NEW r \in RunIds, PrepareLaunch(r) PROVE StatusInv'
  BY <1>2 DEF PrepareLaunch, LaunchStep, UnderWay, RunRow
<1>3. ASSUME NEW r \in RunIds, SkipLaunch(r) PROVE StatusInv'
  BY <1>3 DEF SkipLaunch, LaunchStep, UnderWay, RunRow
<1>4. ASSUME NEW r \in RunIds, AdmitSession(r) PROVE StatusInv'
  BY <1>4 DEF AdmitSession, LaunchStep, UnderWay, RunRow
<1>5. ASSUME NEW r \in RunIds, CreateSession(r) PROVE StatusInv'
  BY <1>5 DEF CreateSession, LaunchStep, UnderWay, RunRow
<1>6. ASSUME NEW r \in RunIds, CreateSessionFails(r) PROVE StatusInv'
  BY <1>6 DEF CreateSessionFails, LaunchStep, UnderWay, RunRow
<1>7. ASSUME NEW r \in RunIds, InterruptAdmission(r) PROVE StatusInv'
  BY <1>7 DEF InterruptAdmission, LaunchStep, UnderWay, RunRow
<1>8. ASSUME NEW r \in RunIds, AttachSession(r) PROVE StatusInv'
  BY <1>8 DEF AttachSession, LaunchStep, UnderWay, RunRow, CanAttach
<1>9. ASSUME NEW r \in RunIds, RefuseSession(r) PROVE StatusInv'
  BY <1>9 DEF RefuseSession, LaunchStep, UnderWay, RunRow
<1>10. ASSUME NEW r \in RunIds, CloseUnattachedSession(r) PROVE StatusInv'
  BY <1>10 DEF CloseUnattachedSession, LaunchStep, UnderWay, RunRow
<1>11. ASSUME NEW r \in RunIds, RecordUnattachedSession(r) PROVE StatusInv'
  BY <1>11 DEF RecordUnattachedSession, LaunchStep, UnderWay, RunRow
<1>12. ASSUME NEW r \in RunIds, SendMessage(r) PROVE StatusInv'
  BY <1>12 DEF SendMessage, LaunchStep, UnderWay, RunRow
<1>13. ASSUME NEW r \in RunIds, TurnEnds(r) PROVE StatusInv'
  BY <1>13 DEF TurnEnds
<1>14. ASSUME NEW r \in RunIds, MessageReturns(r) PROVE StatusInv'
  BY <1>14 DEF MessageReturns, LaunchStep, UnderWay, RunRow
<1>15. ASSUME NEW r \in RunIds, FinishLaunch(r) PROVE StatusInv'
  BY <1>15 DEF FinishLaunch, LaunchStep, UnderWay, RunRow
<1>16. ASSUME NEW r \in RunIds, BlockLaunch(r) PROVE StatusInv'
  BY <1>16 DEF BlockLaunch, LaunchStep, UnderWay, RunRow
<1>17. ASSUME NEW s \in Stoppers, NEW r \in RunIds, NEW kind \in StopKind,
             StopCommand(s, r, kind)
      PROVE StatusInv'
  BY <1>17 DEF StopCommand, StopperRow
<1>18. ASSUME NEW s \in Stoppers, ReadMission(s) PROVE StatusInv'
  BY <1>18, StopGotoStep DEF ReadMission, StopperPc, StopperRow, RunRow, RunStatus,
     ActiveStatus
<1>19. ASSUME NEW s \in Stoppers, ReadRun(s) PROVE StatusInv'
  <2>1. RowsFollowLaunch' /\ MissionCancelledAfterRun' /\ CancelledRunKeepsItsBridge'
    BY <1>19 DEF ReadRun
  <2>2. CASE IsTerminalRunStatus(run[stopper[s].run].status) /\ AfterStopRun(s, TRUE)
    <3>1. /\ \A t \in Stoppers : stopper'[t].run = stopper[t].run
          /\ \A t \in Stoppers : t # s => stopper'[t] = stopper[t]
          /\ stopper'[s].pc \in {"idle", "mission", "persistMission"}
      BY <2>2, AfterStopRunStep
    <3> QED
      BY <1>19, <2>1, <2>2, <3>1 DEF ReadRun
  <2>3. CASE AfterStopRun(s, FALSE)
    <3>1. /\ \A t \in Stoppers : stopper'[t].run = stopper[t].run
          /\ \A t \in Stoppers : t # s => stopper'[t] = stopper[t]
          /\ stopper'[s].pc = "idle"
      BY <2>3, AfterStopRunStep, AfterBlockerStep
    <3> QED
      BY <1>19, <2>1, <3>1 DEF ReadRun
  <2>4. CASE StopGoto(s, "abort") \/ StopGoto(s, "persist")
    BY <1>19, <2>1, <2>4, StopGotoStep DEF ReadRun, StopperPc
  <2> QED
    BY <1>19, <2>2, <2>3, <2>4 DEF ReadRun
<1>20. ASSUME NEW s \in Stoppers, AbortSession(s) PROVE StatusInv'
  BY <1>20, StopGotoStep DEF AbortSession, StopperPc, StopperRow, RunRow, RunStatus,
     ActiveStatus
<1>21. ASSUME NEW s \in Stoppers, AbortSessionFails(s) PROVE StatusInv'
  <2>1. RowsFollowLaunch' /\ MissionCancelledAfterRun' /\ CancelledRunKeepsItsBridge'
    BY <1>21 DEF AbortSessionFails
  <2>2. /\ \A t \in Stoppers : stopper'[t].run = stopper[t].run
        /\ \A t \in Stoppers : t # s => stopper'[t] = stopper[t]
        /\ stopper'[s].pc = "idle"
    BY <1>21, AfterStopRunStep, AfterBlockerStep DEF AbortSessionFails
  <2>3. CommandsFollowRows'
    BY <1>21, <2>2 DEF AbortSessionFails
  <2> QED
    BY <2>1, <2>3
<1>22. ASSUME NEW s \in Stoppers, NoteAbort(s) PROVE StatusInv'
  BY <1>22, StopGotoStep DEF NoteAbort, StopperPc, StopperRow, RunRow, RunStatus,
     ActiveStatus
<1>23. ASSUME NEW s \in Stoppers, PersistRunCancellation(s) PROVE StatusInv'
  <2> DEFINE r == stopper[s].run
  <2>1. r \in RunIds /\ run[r].status # "none"
    BY <1>23 DEF PersistRunCancellation, StopperRow
  <2>2. /\ run'[r].status = "cancelled"
        /\ run'[r].bridge \in {"none", "cancel_requested"}
        /\ \A q \in RunIds : q # r => run'[q] = run[q]
    BY <1>23, <2>1 DEF PersistRunCancellation, RunRow
  <2>3. RowsFollowLaunch'
    BY <1>23, <2>1, <2>2 DEF PersistRunCancellation, UnderWay
  <2>4. /\ \A t \in Stoppers : stopper'[t].run = stopper[t].run
        /\ \A t \in Stoppers : t # s => stopper'[t] = stopper[t]
        /\ stopper'[s].pc \in {"idle", "mission", "persistMission"}
    BY <1>23, AfterStopRunStep DEF PersistRunCancellation
  <2>5. CommandsFollowRows'
    BY <1>23, <2>1, <2>2, <2>4 DEF StopperRow
  <2>6. MissionCancelledAfterRun' /\ CancelledRunKeepsItsBridge'
    BY <1>23, <2>2 DEF PersistRunCancellation
  <2> QED
    BY <2>3, <2>5, <2>6
<1>24. ASSUME NEW s \in Stoppers, PersistMissionCancellation(s) PROVE StatusInv'
  BY <1>24, StopGotoStep DEF PersistMissionCancellation, StopperPc, StopperRow, RunRow,
     RunStatus, ActiveStatus
<1>25. CASE Crash
  BY <1>25 DEF Crash, StopperRow, UnderWay
<1>26. CASE UNCHANGED vars
  BY <1>26 DEF vars
<1> HIDE DEF StatusInv
<1> QED
  BY <1>1, <1>2, <1>3, <1>4, <1>5, <1>6, <1>7, <1>8, <1>9, <1>10, <1>11, <1>12,
     <1>13, <1>14, <1>15, <1>16, <1>17, <1>18, <1>19, <1>20, <1>21, <1>22,
     <1>23, <1>24, <1>25, <1>26 DEF Next, LaunchProgress, StopProgress

\* Sessions and their records, step by step: admission, attachment, prompt, abort
\* and close keep what the run row says of its session true.
LEMMA SessionInvIsInductive ==
  ASSUME TypeOK, SessionInv, [Next]_vars
  PROVE  SessionInv'
<1> USE DEF TypeOK, SessionInv, SessionsFollowLaunch, NotesFollowAborts,
    PromptedSessionIsReachable, EndedRecordIsTrue, Hosted
<1>1. ASSUME NEW r \in RunIds, Admit(r) PROVE SessionInv'
  BY <1>1 DEF Admit, LaunchStep, RunRow
<1>2. ASSUME NEW r \in RunIds, PrepareLaunch(r) PROVE SessionInv'
  BY <1>2 DEF PrepareLaunch, LaunchStep, RunRow
<1>3. ASSUME NEW r \in RunIds, SkipLaunch(r) PROVE SessionInv'
  BY <1>3 DEF SkipLaunch, LaunchStep, RunRow
<1>4. ASSUME NEW r \in RunIds, AdmitSession(r) PROVE SessionInv'
  BY <1>4 DEF AdmitSession, LaunchStep, RunRow
<1>5. ASSUME NEW r \in RunIds, CreateSession(r) PROVE SessionInv'
  BY <1>5 DEF CreateSession, LaunchStep, RunRow
<1>6. ASSUME NEW r \in RunIds, CreateSessionFails(r) PROVE SessionInv'
  BY <1>6 DEF CreateSessionFails, LaunchStep, RunRow
<1>7. ASSUME NEW r \in RunIds, InterruptAdmission(r) PROVE SessionInv'
  BY <1>7 DEF InterruptAdmission, LaunchStep, RunRow
<1>8. ASSUME NEW r \in RunIds, AttachSession(r) PROVE SessionInv'
  BY <1>8 DEF AttachSession, LaunchStep, RunRow, CanAttach
<1>9. ASSUME NEW r \in RunIds, RefuseSession(r) PROVE SessionInv'
  BY <1>9 DEF RefuseSession, LaunchStep, RunRow
<1>10. ASSUME NEW r \in RunIds, CloseUnattachedSession(r) PROVE SessionInv'
  BY <1>10 DEF CloseUnattachedSession, LaunchStep, RunRow
<1>11. ASSUME NEW r \in RunIds, RecordUnattachedSession(r) PROVE SessionInv'
  BY <1>11 DEF RecordUnattachedSession, LaunchStep, RunRow, EndedRecord
<1>12. ASSUME NEW r \in RunIds, SendMessage(r) PROVE SessionInv'
  BY <1>12 DEF SendMessage, LaunchStep, RunRow
<1>13. ASSUME NEW r \in RunIds, TurnEnds(r) PROVE SessionInv'
  BY <1>13 DEF TurnEnds
<1>14. ASSUME NEW r \in RunIds, MessageReturns(r) PROVE SessionInv'
  BY <1>14 DEF MessageReturns, LaunchStep, RunRow
<1>15. ASSUME NEW r \in RunIds, FinishLaunch(r) PROVE SessionInv'
  BY <1>15 DEF FinishLaunch, LaunchStep, RunRow
<1>16. ASSUME NEW r \in RunIds, BlockLaunch(r) PROVE SessionInv'
  BY <1>16 DEF BlockLaunch, LaunchStep, RunRow
<1>17. ASSUME NEW s \in Stoppers, NEW r \in RunIds, NEW kind \in StopKind,
             StopCommand(s, r, kind)
      PROVE SessionInv'
  BY <1>17 DEF StopCommand, StopperRow
<1>18. ASSUME NEW s \in Stoppers, ReadMission(s) PROVE SessionInv'
  <2>1. PICK pc \in {"idle", "read", "persistMission"} : StopGoto(s, pc)
    BY <1>18 DEF ReadMission
  <2>2. /\ \A t \in Stoppers : stopper'[t].run = stopper[t].run
        /\ \A t \in Stoppers : t # s => stopper'[t] = stopper[t]
        /\ stopper'[s].pc # "note"
    BY <2>1, StopGotoStep DEF StopperPc
  <2> QED
    BY <1>18, <2>2 DEF ReadMission
<1>19. ASSUME NEW s \in Stoppers, ReadRun(s) PROVE SessionInv'
  <2>1. /\ \A t \in Stoppers : stopper'[t].run = stopper[t].run
        /\ \A t \in Stoppers : t # s => stopper'[t] = stopper[t]
        /\ stopper'[s].pc # "note"
    <3>1. CASE StopGoto(s, "abort") \/ StopGoto(s, "persist")
      BY <3>1, StopGotoStep DEF StopperPc
    <3>2. CASE AfterStopRun(s, TRUE) \/ AfterStopRun(s, FALSE)
      BY <3>2, AfterStopRunStep
    <3>3. \/ StopGoto(s, "abort") \/ StopGoto(s, "persist")
          \/ AfterStopRun(s, TRUE) \/ AfterStopRun(s, FALSE)
      BY <1>19, Zenon DEF ReadRun
    <3> QED
      BY <3>1, <3>2, <3>3
  <2> QED
    BY <1>19, <2>1 DEF ReadRun
<1>20. ASSUME NEW s \in Stoppers, AbortSession(s) PROVE SessionInv'
  BY <1>20, StopGotoStep DEF AbortSession, StopperPc, StopperRow, RunRow
<1>21. ASSUME NEW s \in Stoppers, AbortSessionFails(s) PROVE SessionInv'
  <2>1. /\ \A t \in Stoppers : stopper'[t].run = stopper[t].run
        /\ \A t \in Stoppers : t # s => stopper'[t] = stopper[t]
        /\ stopper'[s].pc # "note"
    BY <1>21, AfterStopRunStep DEF AbortSessionFails
  <2> QED
    BY <1>21, <2>1 DEF AbortSessionFails
<1>22. ASSUME NEW s \in Stoppers, NoteAbort(s) PROVE SessionInv'
  BY <1>22, StopGotoStep DEF NoteAbort, StopperPc, StopperRow, RunRow
<1>23. ASSUME NEW s \in Stoppers, PersistRunCancellation(s) PROVE SessionInv'
  <2>1. \A r \in RunIds : run'[r].sessionKnown = run[r].sessionKnown
    BY <1>23 DEF PersistRunCancellation, RunRow, StopperRow
  <2>2. /\ \A t \in Stoppers : stopper'[t].run = stopper[t].run
        /\ \A t \in Stoppers : t # s => stopper'[t] = stopper[t]
        /\ stopper'[s].pc \in {"idle", "mission", "persistMission"}
    BY <1>23, AfterStopRunStep DEF PersistRunCancellation
  <2> QED
    BY <1>23, <2>1, <2>2 DEF PersistRunCancellation
<1>24. ASSUME NEW s \in Stoppers, PersistMissionCancellation(s) PROVE SessionInv'
  BY <1>24, StopGotoStep DEF PersistMissionCancellation, StopperPc, StopperRow, RunRow
<1>25. CASE Crash
  BY <1>25 DEF Crash, StopperRow, UnderWay
<1>26. CASE UNCHANGED vars
  BY <1>26 DEF vars
<1> HIDE DEF SessionInv
<1> QED
  BY <1>1, <1>2, <1>3, <1>4, <1>5, <1>6, <1>7, <1>8, <1>9, <1>10, <1>11, <1>12,
     <1>13, <1>14, <1>15, <1>16, <1>17, <1>18, <1>19, <1>20, <1>21, <1>22,
     <1>23, <1>24, <1>25, <1>26 DEF Next, LaunchProgress, StopProgress

-----------------------------------------------------------------------------
\* Types, statuses and sessions together hold in every reachable state.
LEMMA InductiveInvariant == Spec => [](TypeOK /\ StatusInv /\ SessionInv)
<1>1. Init => StatusInv
  BY DEF Init, StatusInv, RowsFollowLaunch, CommandsFollowRows, MissionCancelledAfterRun,
     CancelledRunKeepsItsBridge, IsTerminalRunStatus, NoRun, UnderWay
<1>2. Init => SessionInv
  BY DEF Init, SessionInv, SessionsFollowLaunch, NotesFollowAborts,
     PromptedSessionIsReachable, EndedRecordIsTrue
<1>3. TypeOK /\ StatusInv /\ [Next]_vars => StatusInv'
  BY StatusInvIsInductive
<1>4. TypeOK /\ SessionInv /\ [Next]_vars => SessionInv'
  BY SessionInvIsInductive
<1> QED
  BY <1>1, <1>2, <1>3, <1>4, TypeCorrect, PTL DEF Spec

\* However many stop, cancel and replace commands race the launches, a mission
\* is cancelled only when the run it owns is terminal.
THEOREM MissionAfterRun == Spec => []MissionCancelledAfterRun
<1>1. StatusInv => MissionCancelledAfterRun
  BY DEF StatusInv
<1> QED
  BY <1>1, InductiveInvariant, PTL

\* No launch in flight writes over the bridge of a run that was cancelled.
THEOREM BridgeIsKept == Spec => []CancelledRunKeepsItsBridge
<1>1. StatusInv => CancelledRunKeepsItsBridge
  BY DEF StatusInv
<1> QED
  BY <1>1, InductiveInvariant, PTL

\* A hosted run's session is prompted only when the run row names it, crashes
\* and lost answers of the runtime included.
THEOREM PromptedIsReachable == Spec => []PromptedSessionIsReachable
<1>1. SessionInv => PromptedSessionIsReachable
  BY DEF SessionInv
<1> QED
  BY <1>1, InductiveInvariant, PTL

\* What the run row records as ended, with nothing left to clean up, is closed
\* or was cancelled in the runtime.
THEOREM EndedIsTrue == Spec => []EndedRecordIsTrue
<1>1. SessionInv => EndedRecordIsTrue
  BY DEF SessionInv
<1> QED
  BY <1>1, InductiveInvariant, PTL

-----------------------------------------------------------------------------
(***************************************************************************)
(* The rows implement the abstract life cycle.                             *)
(***************************************************************************)
\* Each step is a step of RunLifecycle, or leaves the statuses as they are.
LEMMA StepImplementsLifecycle ==
  ASSUME TypeOK, StatusInv, [Next]_vars
  PROVE  [Lifecycle!LifecycleNext]_(Lifecycle!lifecycleVars)
<1> USE DEF Lifecycle!lifecycleVars
<1>1. ASSUME UNCHANGED mission, \A q \in RunIds : run'[q].status = run[q].status
      PROVE  UNCHANGED Lifecycle!lifecycleVars
  BY <1>1
<1>2. ASSUME NEW r \in RunIds, Admit(r) PROVE Lifecycle!AdmitRun(r)
  BY <1>2 DEF Admit, LaunchStep, Lifecycle!AdmitRun, TypeOK, RunRow, StatusInv,
     RowsFollowLaunch
<1>3. ASSUME NEW r \in RunIds, PrepareLaunch(r) PROVE Lifecycle!StartRun(r)
  BY <1>3 DEF PrepareLaunch, Lifecycle!StartRun, TypeOK, RunRow
<1>4. ASSUME NEW r \in RunIds, AttachSession(r) PROVE UNCHANGED Lifecycle!lifecycleVars
  BY <1>1, <1>4 DEF AttachSession, TypeOK, RunRow
<1>5. ASSUME NEW r \in RunIds, FinishLaunch(r) PROVE UNCHANGED Lifecycle!lifecycleVars
  <2>1. run[r].status \in {"running", "cancelled"}
    BY <1>5 DEF FinishLaunch, LaunchStep, StatusInv, RowsFollowLaunch, UnderWay
  <2> QED
    BY <1>1, <1>5, <2>1 DEF FinishLaunch, IsTerminalRunStatus, TypeOK, RunRow
<1>6. ASSUME NEW r \in RunIds, BlockLaunch(r)
      PROVE  Lifecycle!BlockRun(r) \/ UNCHANGED Lifecycle!lifecycleVars
  <2>1. run[r].status \in {"running", "cancelled"}
    BY <1>6 DEF BlockLaunch, LaunchStep, StatusInv, RowsFollowLaunch, UnderWay
  <2>2. CASE run[r].status = "running"
    BY <1>6, <2>2 DEF BlockLaunch, IsTerminalRunStatus, Lifecycle!BlockRun, TypeOK, RunRow
  <2>3. CASE run[r].status = "cancelled"
    BY <1>1, <1>6, <2>3 DEF BlockLaunch, IsTerminalRunStatus
  <2> QED
    BY <2>1, <2>2, <2>3
<1>7. ASSUME NEW s \in Stoppers, PersistRunCancellation(s)
      PROVE  \/ \E r \in RunIds : Lifecycle!CancelRun(r)
             \/ UNCHANGED Lifecycle!lifecycleVars
  <2> DEFINE r == stopper[s].run
  <2>1. r \in RunIds /\ run[r].status # "none"
    BY <1>7 DEF PersistRunCancellation, TypeOK, StopperRow, StatusInv, CommandsFollowRows
  <2>2. CASE IsTerminalRunStatus(run[r].status)
    BY <1>1, <1>7, <2>2 DEF PersistRunCancellation
  <2>3. CASE ~IsTerminalRunStatus(run[r].status)
    <3>1. run[r].status \in Lifecycle!ActiveStatus
      BY <2>1, <2>3 DEF TypeOK, RunRow, RunStatus, ActiveStatus, IsTerminalRunStatus,
         Lifecycle!ActiveStatus
    <3> QED
      BY <1>7, <2>1, <2>3, <3>1 DEF PersistRunCancellation, Lifecycle!CancelRun, TypeOK,
         RunRow
  <2> QED
    BY <2>2, <2>3
<1>8. ASSUME NEW s \in Stoppers, PersistMissionCancellation(s)
      PROVE  \/ \E r \in RunIds : Lifecycle!CancelMission(r)
             \/ UNCHANGED Lifecycle!lifecycleVars
  <2> DEFINE r == stopper[s].run
  <2>1. r \in RunIds /\ run[r].status = "cancelled"
    BY <1>8 DEF PersistMissionCancellation, TypeOK, StopperRow, StatusInv,
       CommandsFollowRows,
       IsTerminalRunStatus
  <2>2. mission[r] \in {"queued", "running", "cancelled"}
    BY <2>1 DEF TypeOK, StatusInv, RowsFollowLaunch
  <2>3. CASE mission[r] = "cancelled"
    BY <1>1, <1>8, <2>1, <2>3 DEF PersistMissionCancellation, TypeOK
  <2>4. CASE mission[r] # "cancelled"
    BY <1>8, <2>1, <2>2, <2>4 DEF PersistMissionCancellation, Lifecycle!CancelMission
  <2> QED
    BY <2>3, <2>4
<1>9. ASSUME UNCHANGED <<run, mission>> PROVE UNCHANGED Lifecycle!lifecycleVars
  BY <1>9
<1> QED
  <2> HIDE DEF Lifecycle!lifecycleVars
  <2>1. \/ UNCHANGED <<run, mission>>
        \/ \E r \in RunIds : \/ Admit(r) \/ PrepareLaunch(r) \/ AttachSession(r)
                             \/ FinishLaunch(r) \/ BlockLaunch(r)
        \/ \E s \in Stoppers : PersistRunCancellation(s) \/ PersistMissionCancellation(s)
    BY DEF Next, vars, LaunchProgress, StopProgress, SkipLaunch, AdmitSession,
       CreateSession,
       CreateSessionFails, InterruptAdmission, RefuseSession, CloseUnattachedSession,
       RecordUnattachedSession, SendMessage, TurnEnds, MessageReturns, StopCommand,
       ReadMission, ReadRun, AbortSession, AbortSessionFails, NoteAbort, Crash
  <2> QED
    BY <1>2, <1>3, <1>4, <1>5, <1>6, <1>7, <1>8, <1>9, <2>1 DEF Lifecycle!LifecycleNext

\* Whatever the interleaving of launches, commands and crashes, the run and
\* mission rows go through the abstract life cycle: one admission, one start, no
\* step out of a terminal status, the mission only after its run.
THEOREM LifecycleIsImplemented == Spec => ImplementsLifecycle
<1>1. Init => Lifecycle!LifecycleInit
  BY DEF Init, NoRun, Lifecycle!LifecycleInit
<1>2. TypeOK /\ StatusInv /\ [Next]_vars => [Lifecycle!LifecycleNext]_(Lifecycle!lifecycleVars)
  BY StepImplementsLifecycle
<1> QED
  BY <1>1, <1>2, InductiveInvariant, PTL DEF Spec, ImplementsLifecycle,
     Lifecycle!LifecycleSpec

=============================================================================
