------------------------ MODULE GoldenPath_proofs ------------------------
(***************************************************************************)
(* GoldenPath for every number of handlers, of steps, of owner actions, of *)
(* failed writes and of deaths of the process.                             *)
(***************************************************************************)
EXTENDS GoldenPath, TLAPS

-----------------------------------------------------------------------------
(***************************************************************************)
(* The inductive invariant.                                                *)
(***************************************************************************)

\* Each asker is where its own code can be, and decides on a live status.
AskersInv ==
  /\ \A h \in Handlers : ask[h].at # "scan"
  /\ ask[Desktop].at \in {"idle", "retry", "resume", "write"}
  /\ ask[Sweep].at \in {"idle", "scan", "resume", "write", "redrive"}
  /\ \A p \in Askers :
       /\ ask[p].at = "write" => ask[p].next \in Resumable
       /\ ask[p].at \in {"admitted", "write", "tell", "redrive"} => run # "none"
  /\ ~up => /\ drive.at = "idle" /\ "crashed" \in lapse
            /\ \A p \in Askers : ask[p].at = "idle"

\* The run, its task and its drive agree.
RunInv ==
  /\ run = "none" <=> task = "none"
  /\ run = "cancelled" => task = "cancelled"
  /\ drive.at # "idle" => run # "none"
  /\ run = "completed" => drive.at \in {"idle", "read", "deliver", "ending"}
  /\ run = "failed" => drive.at \in {"idle", "read", "ending"}
  /\ drive.at = "deliver" => run = "completed"
  /\ CompletedIffOutcome

\* A live run whose drive is past its last write has someone to drive it.
LiveInv ==
  up /\ run \in Resumable /\ drive.at \in {"idle", "notify", "ending"} =>
    \/ \E h \in Handlers : ask[h].at \in {"admitted", "tell", "redrive"}
    \/ ask[Sweep].at # "idle"
    \/ Left

\* A decision message that was once announced left the owner a button.
Actionable ==
  \/ "retry" \in offered \/ task = "cancelled" \/ <<"cancelled", 0>> \in announced
  \/ "reopened" \in lapse

Decision == {"timeout", "denied", "evidence"}

BlockedInv ==
  /\ \A message \in announced : message[1] \in Decision => Actionable
  /\ drive.at = "notify" =>
       /\ drive.say[1] \in Decision
       /\ run = "blocked" \/ task = "cancelled" \/ "reopened" \in lapse
  /\ up /\ run = "blocked" /\ drive.at \in {"idle", "ending"} =>
       Actionable \/ lapse \cap {"crashed", "thrown"} # {}

IInv == TypeOK /\ AskersInv /\ RunInv /\ LiveInv /\ BlockedInv

-----------------------------------------------------------------------------
(***************************************************************************)
(* Facts about the messages and the records that several steps use.        *)
(***************************************************************************)

\* The messages the runner announces are messages.
LEMMA MessageType ==
  /\ \A step \in 0..(MaxSteps - 1) : <<"timeout", step>> \in Message
  /\ {<<"denied", 0>>, <<"evidence", 0>>, <<"result", 0>>, <<"cancelled", 0>>} \subseteq Message
  BY DEF Message

\* The first step is within every budget.
LEMMA NoDriveType ==
  NoDrive \in [at : DrivePlace, step : 0..(MaxSteps - 1), say : Message \cup {Quiet}]
  BY GoldenPathAssumption DEF NoDrive, DrivePlace

-----------------------------------------------------------------------------
(***************************************************************************)
(* Every step preserves each part of the invariant.                        *)
(***************************************************************************)

\* Each variable keeps its type.
LEMMA TypeStep ==
  ASSUME IInv, [Next]_vars
  PROVE  TypeOK'
<1> USE GoldenPathAssumption, MessageType, NoDriveType
    DEF IInv, TypeOK, Goes, Says, Proceeds, Rests, NoAsk, core, owner, Askers, RunStatus, Action,
        AskPlace, DrivePlace
<1>1. CASE DriveReads
  BY <1>1 DEF DriveReads
<1>2. CASE Mark
  BY <1>2 DEF Mark
<1>3. CASE Marked
  BY <1>3 DEF Marked
<1>4. CASE StartStep
  BY <1>4 DEF StartStep
<1>5. CASE EndStep
  <2>1. \/ /\ drive.step < MaxSteps - 1
           /\ drive' = [drive EXCEPT !.at = "top", !.step = drive.step + 1]
        \/ \E place \in DrivePlace : drive' = [drive EXCEPT !.at = place]
    BY <1>5 DEF EndStep
  <2>2. drive' \in [at : DrivePlace, step : 0..(MaxSteps - 1), say : Message \cup {Quiet}]
    <3>1. CASE /\ drive.step < MaxSteps - 1
               /\ drive' = [drive EXCEPT !.at = "top", !.step = drive.step + 1]
      <4>1. drive.step + 1 \in 0..(MaxSteps - 1)
        BY <3>1
      <4> QED
        BY <3>1, <4>1
    <3>2. ASSUME NEW place \in DrivePlace, drive' = [drive EXCEPT !.at = place]
          PROVE  drive' \in [at : DrivePlace, step : 0..(MaxSteps - 1),
                              say : Message \cup {Quiet}]
      BY <3>2
    <3> QED
      BY <2>1, <3>1, <3>2
  <2> QED
    BY <1>5, <2>2 DEF EndStep
<1>6. CASE TimeOut
  <2>1. <<"timeout", drive.step>> \in Message
    OBVIOUS
  <2> QED
    BY <1>6, <2>1 DEF TimeOut
<1>7. CASE WriteTimeOut
  <2>1. <<"timeout", drive.step>> \in Message
    OBVIOUS
  <2> QED
    BY <1>7, <2>1 DEF WriteTimeOut
<1>8. CASE WriteFailed
  BY <1>8 DEF WriteFailed, NonTerminalStatus
<1>9. CASE WriteDenied
  BY <1>9 DEF WriteDenied, NonTerminalStatus
<1>10. CASE WriteUnmet
  BY <1>10 DEF WriteUnmet
<1>11. CASE WriteAccepted
  BY <1>11 DEF WriteAccepted
<1>12. CASE Notify
  <2>1. drive.say \in Message
    BY <1>12 DEF Notify, BlockedInv, Quiet, Decision
  <2>2. announced' \subseteq Message /\ offered' \subseteq Action
    BY <1>12, <2>1 DEF Notify, Announce
  <2> QED
    BY <1>12, <2>2 DEF Notify
<1>13. CASE Deliver
  BY <1>13 DEF Deliver, Announce
<1>14. CASE EndDrive
  BY <1>14 DEF EndDrive, NoDrive
<1>15. CASE \E h \in Handlers : Admit(h)
  BY <1>15 DEF Admit
<1>16. CASE \E h \in Handlers : DriveAdmitted(h)
  BY <1>16 DEF DriveAdmitted, Drive, NoDrive
<1>17. CASE \E h \in Handlers : CancelWork(h)
  BY <1>17 DEF CancelWork
<1>18. CASE \E h \in Handlers : TellCancelled(h)
  BY <1>18 DEF TellCancelled
<1>19. CASE \E h \in Handlers : TellLifecycle(h)
  BY <1>19 DEF TellLifecycle
<1>20. CASE \E h \in Handlers : HandlerThrows(h)
  BY <1>20 DEF HandlerThrows
<1>21. CASE \E p \in Askers : CheckLifecycle(p)
  BY <1>21 DEF CheckLifecycle
<1>22. CASE \E p \in Askers : WriteLifecycle(p)
  BY <1>22 DEF WriteLifecycle, LifecycleStatus
<1>23. CASE \E p \in Askers : Redrive(p)
  BY <1>23 DEF Redrive, Drive, NoDrive
<1>24. CASE DriveThrows
  BY <1>24 DEF DriveThrows, NoDrive
<1>25. CASE Crash
  <2>1. drive' \in [at : DrivePlace, step : 0..(MaxSteps - 1), say : Message \cup {Quiet}]
    BY <1>25 DEF Crash
  <2>2. ask' \in [Askers -> [at : AskPlace, next : RunStatus]]
    BY <1>25 DEF Crash
  <2>3. up' \in BOOLEAN
    BY <1>25 DEF Crash
  <2>4. crashes' \in 0..MaxCrashes
    <3>1. crashes' = crashes + 1 /\ crashes < MaxCrashes /\ crashes \in 0..MaxCrashes
      BY <1>25 DEF Crash
    <3> HIDE DEF IInv, TypeOK
    <3> QED
      BY <3>1, GoldenPathAssumption
  <2>5. lapse' \subseteq {"joined", "thrown", "desktop", "capped", "crashed", "reopened"}
    BY <1>25 DEF Crash
  <2>6. UNCHANGED <<run, task, outcome, announced, offered, asks, throws>>
    BY <1>25 DEF Crash
  <2> QED
    BY <2>1, <2>2, <2>3, <2>4, <2>5, <2>6
<1>26. CASE Restart
  BY <1>26 DEF Restart
<1>27. CASE Scan
  BY <1>27 DEF Scan, SweepTakes
<1>31. CASE SweepThrows
  BY <1>31 DEF SweepThrows
<1>28. CASE \E h \in Handlers, action \in Action : Tap(h, action)
  BY <1>28 DEF Tap
<1>29. CASE \E action \in {"retry", "resume"} : AskDesktop(action)
  BY <1>29 DEF AskDesktop
<1>30. CASE UNCHANGED vars
  BY <1>30 DEF vars
<1> QED
  BY <1>1, <1>2, <1>3, <1>4, <1>5, <1>6, <1>7, <1>8, <1>9, <1>10, <1>11,
     <1>12, <1>13, <1>14, <1>15, <1>16, <1>17, <1>18, <1>19, <1>20, <1>21,
     <1>22, <1>23, <1>24, <1>25, <1>26, <1>27, <1>28, <1>29, <1>30, <1>31
     DEF Next, DriveStep, AskStep

\* Each asker stays where its code can be.
LEMMA AskersStep ==
  ASSUME IInv, [Next]_vars
  PROVE  AskersInv'
<1> USE GoldenPathAssumption
    DEF IInv, TypeOK, AskersInv, RunInv, Goes, Says, Proceeds, Rests, NoAsk, core, owner, Askers,
        Resumable
<1>1. CASE DriveReads
  BY <1>1 DEF DriveReads
<1>2. CASE Mark
  BY <1>2 DEF Mark
<1>3. CASE Marked
  BY <1>3 DEF Marked
<1>4. CASE StartStep
  BY <1>4 DEF StartStep
<1>5. CASE EndStep
  BY <1>5 DEF EndStep
<1>6. CASE TimeOut
  BY <1>6 DEF TimeOut
<1>7. CASE WriteTimeOut
  BY <1>7 DEF WriteTimeOut
<1>8. CASE WriteFailed
  BY <1>8 DEF WriteFailed, NonTerminalStatus
<1>9. CASE WriteDenied
  BY <1>9 DEF WriteDenied, NonTerminalStatus
<1>10. CASE WriteUnmet
  BY <1>10 DEF WriteUnmet
<1>11. CASE WriteAccepted
  BY <1>11 DEF WriteAccepted
<1>12. CASE Notify
  BY <1>12 DEF Notify, Announce, Allowed
<1>13. CASE Deliver
  BY <1>13 DEF Deliver, Announce
<1>14. CASE EndDrive
  BY <1>14 DEF EndDrive, NoDrive
<1>15. CASE \E h \in Handlers : Admit(h)
  BY <1>15 DEF Admit
<1>16. CASE \E h \in Handlers : DriveAdmitted(h)
  BY <1>16 DEF DriveAdmitted, Drive, NoDrive
<1>17. CASE \E h \in Handlers : CancelWork(h)
  BY <1>17 DEF CancelWork
<1>18. CASE \E h \in Handlers : TellCancelled(h)
  BY <1>18 DEF TellCancelled
<1>19. CASE \E h \in Handlers : TellLifecycle(h)
  BY <1>19 DEF TellLifecycle
<1>20. CASE \E h \in Handlers : HandlerThrows(h)
  BY <1>20 DEF HandlerThrows
<1>21. CASE \E p \in Askers : CheckLifecycle(p)
  <2>1. PICK p \in Askers : CheckLifecycle(p)
    BY <1>21
  <2>2. UNCHANGED <<run, drive, up, lapse>>
    BY <2>1 DEF CheckLifecycle
  <2>3. \/ ask' = [ask EXCEPT ![p] = NoAsk]
        \/ /\ run # "none"
           /\ \E next \in Resumable : ask' = [ask EXCEPT ![p] = [at |-> "write", next |-> next]]
    BY <2>1 DEF CheckLifecycle, Retryable
  <2>4. up
    BY <2>1 DEF CheckLifecycle
  <2>5. CASE ask' = [ask EXCEPT ![p] = NoAsk]
    BY <2>2, <2>4, <2>5
  <2>6. ASSUME run # "none", NEW next \in Resumable,
               ask' = [ask EXCEPT ![p] = [at |-> "write", next |-> next]]
        PROVE  AskersInv'
    <3>1. /\ ask'[p].at = "write" /\ ask'[p].next = next
          /\ \A q \in Askers \ {p} : ask'[q] = ask[q]
      BY <2>6
    <3> QED
      BY <2>2, <2>4, <2>6, <3>1
  <2> QED
    BY <2>3, <2>5, <2>6
<1>22. CASE \E p \in Askers : WriteLifecycle(p)
  BY <1>22 DEF WriteLifecycle, LifecycleStatus
<1>23. CASE \E p \in Askers : Redrive(p)
  BY <1>23 DEF Redrive, Drive, NoDrive
<1>24. CASE DriveThrows
  BY <1>24 DEF DriveThrows, NoDrive
<1>25. CASE Crash
  BY <1>25 DEF Crash, NoDrive
<1>26. CASE Restart
  BY <1>26 DEF Restart
<1>27. CASE Scan
  BY <1>27 DEF Scan, SweepTakes
<1>31. CASE SweepThrows
  BY <1>31 DEF SweepThrows
<1>28. CASE \E h \in Handlers, action \in Action : Tap(h, action)
  <2>1. PICK h \in Handlers, action \in Action : Tap(h, action)
    BY <1>28
  <2>2. UNCHANGED <<run, drive, up, lapse>> /\ up
        /\ action \in {"start", "cancel", "retry", "resume"}
    BY <2>1 DEF Tap, Action
  <2>3. \A q \in Askers : ask'[q].at = (IF q = h THEN action ELSE ask[q].at)
                          /\ ask'[q].next = ask[q].next
    BY <2>1 DEF Tap
  <2> QED
    BY <2>2, <2>3
<1>29. CASE \E action \in {"retry", "resume"} : AskDesktop(action)
  BY <1>29 DEF AskDesktop
<1>30. CASE UNCHANGED vars
  BY <1>30 DEF vars
<1> QED
  BY <1>1, <1>2, <1>3, <1>4, <1>5, <1>6, <1>7, <1>8, <1>9, <1>10, <1>11,
     <1>12, <1>13, <1>14, <1>15, <1>16, <1>17, <1>18, <1>19, <1>20, <1>21,
     <1>22, <1>23, <1>24, <1>25, <1>26, <1>27, <1>28, <1>29, <1>30, <1>31
     DEF Next, DriveStep, AskStep

\* The run, its task and its drive stay in step.
LEMMA RunStep ==
  ASSUME IInv, [Next]_vars
  PROVE  RunInv'
<1> USE GoldenPathAssumption
    DEF IInv, TypeOK, AskersInv, RunInv, CompletedIffOutcome, Goes, Says, Proceeds, Rests,
        NoAsk, core, owner, Askers, Resumable, Terminal, Finished
<1>1. CASE DriveReads
  BY <1>1 DEF DriveReads
<1>2. CASE Mark
  BY <1>2 DEF Mark
<1>3. CASE Marked
  BY <1>3 DEF Marked
<1>4. CASE StartStep
  BY <1>4 DEF StartStep
<1>5. CASE EndStep
  BY <1>5 DEF EndStep
<1>6. CASE TimeOut
  BY <1>6 DEF TimeOut
<1>7. CASE WriteTimeOut
  BY <1>7 DEF WriteTimeOut
<1>8. CASE WriteFailed
  BY <1>8 DEF WriteFailed, NonTerminalStatus
<1>9. CASE WriteDenied
  BY <1>9 DEF WriteDenied, NonTerminalStatus
<1>10. CASE WriteUnmet
  BY <1>10 DEF WriteUnmet
<1>11. CASE WriteAccepted
  BY <1>11 DEF WriteAccepted
<1>12. CASE Notify
  BY <1>12 DEF Notify, Announce, Allowed
<1>13. CASE Deliver
  BY <1>13 DEF Deliver, Announce
<1>14. CASE EndDrive
  BY <1>14 DEF EndDrive, NoDrive
<1>15. CASE \E h \in Handlers : Admit(h)
  BY <1>15 DEF Admit
<1>16. CASE \E h \in Handlers : DriveAdmitted(h)
  BY <1>16 DEF DriveAdmitted, Drive, NoDrive
<1>17. CASE \E h \in Handlers : CancelWork(h)
  BY <1>17 DEF CancelWork
<1>18. CASE \E h \in Handlers : TellCancelled(h)
  BY <1>18 DEF TellCancelled
<1>19. CASE \E h \in Handlers : TellLifecycle(h)
  BY <1>19 DEF TellLifecycle
<1>20. CASE \E h \in Handlers : HandlerThrows(h)
  BY <1>20 DEF HandlerThrows
<1>21. CASE \E p \in Askers : CheckLifecycle(p)
  BY <1>21 DEF CheckLifecycle
<1>22. CASE \E p \in Askers : WriteLifecycle(p)
  BY <1>22 DEF WriteLifecycle, LifecycleStatus
<1>23. CASE \E p \in Askers : Redrive(p)
  BY <1>23 DEF Redrive, Drive, NoDrive
<1>24. CASE DriveThrows
  BY <1>24 DEF DriveThrows, NoDrive
<1>25. CASE Crash
  BY <1>25 DEF Crash, NoDrive
<1>26. CASE Restart
  BY <1>26 DEF Restart
<1>27. CASE Scan
  BY <1>27 DEF Scan, SweepTakes
<1>31. CASE SweepThrows
  BY <1>31 DEF SweepThrows
<1>28. CASE \E h \in Handlers, action \in Action : Tap(h, action)
  BY <1>28 DEF Tap
<1>29. CASE \E action \in {"retry", "resume"} : AskDesktop(action)
  BY <1>29 DEF AskDesktop
<1>30. CASE UNCHANGED vars
  BY <1>30 DEF vars
<1> QED
  BY <1>1, <1>2, <1>3, <1>4, <1>5, <1>6, <1>7, <1>8, <1>9, <1>10, <1>11,
     <1>12, <1>13, <1>14, <1>15, <1>16, <1>17, <1>18, <1>19, <1>20, <1>21,
     <1>22, <1>23, <1>24, <1>25, <1>26, <1>27, <1>28, <1>29, <1>30, <1>31
     DEF Next, DriveStep, AskStep

\* A live run keeps someone to drive it.
LEMMA LiveStep ==
  ASSUME IInv, [Next]_vars
  PROVE  LiveInv'
<1> USE GoldenPathAssumption
    DEF IInv, TypeOK, AskersInv, RunInv, LiveInv, Left, Goes, Says, Proceeds, Rests, NoAsk, core, owner,
        Askers, Resumable, Terminal, Finished
<1>1. CASE DriveReads
  BY <1>1 DEF DriveReads
<1>2. CASE Mark
  BY <1>2 DEF Mark
<1>3. CASE Marked
  BY <1>3 DEF Marked
<1>4. CASE StartStep
  BY <1>4 DEF StartStep
<1>5. CASE EndStep
  BY <1>5 DEF EndStep
<1>6. CASE TimeOut
  BY <1>6 DEF TimeOut
<1>7. CASE WriteTimeOut
  BY <1>7 DEF WriteTimeOut
<1>8. CASE WriteFailed
  BY <1>8 DEF WriteFailed, NonTerminalStatus
<1>9. CASE WriteDenied
  BY <1>9 DEF WriteDenied, NonTerminalStatus
<1>10. CASE WriteUnmet
  BY <1>10 DEF WriteUnmet
<1>11. CASE WriteAccepted
  BY <1>11 DEF WriteAccepted
<1>12. CASE Notify
  BY <1>12 DEF Notify, Announce, Allowed
<1>13. CASE Deliver
  BY <1>13 DEF Deliver, Announce
<1>14. CASE EndDrive
  BY <1>14 DEF EndDrive, NoDrive
<1>15. CASE \E h \in Handlers : Admit(h)
  BY <1>15 DEF Admit
<1>16. CASE \E h \in Handlers : DriveAdmitted(h)
  BY <1>16 DEF DriveAdmitted, Drive, NoDrive
<1>17. CASE \E h \in Handlers : CancelWork(h)
  BY <1>17 DEF CancelWork
<1>18. CASE \E h \in Handlers : TellCancelled(h)
  BY <1>18 DEF TellCancelled
<1>19. CASE \E h \in Handlers : TellLifecycle(h)
  BY <1>19 DEF TellLifecycle
<1>20. CASE \E h \in Handlers : HandlerThrows(h)
  BY <1>20 DEF HandlerThrows
<1>21. CASE \E p \in Askers : CheckLifecycle(p)
  BY <1>21 DEF CheckLifecycle
<1>22. CASE \E p \in Askers : WriteLifecycle(p)
  BY <1>22 DEF WriteLifecycle, LifecycleStatus
<1>23. CASE \E p \in Askers : Redrive(p)
  BY <1>23 DEF Redrive, Drive, NoDrive
<1>24. CASE DriveThrows
  BY <1>24 DEF DriveThrows, NoDrive
<1>25. CASE Crash
  BY <1>25 DEF Crash, NoDrive
<1>26. CASE Restart
  BY <1>26 DEF Restart
<1>27. CASE Scan
  BY <1>27 DEF Scan, SweepTakes
<1>31. CASE SweepThrows
  BY <1>31 DEF SweepThrows
<1>28. CASE \E h \in Handlers, action \in Action : Tap(h, action)
  BY <1>28 DEF Tap
<1>29. CASE \E action \in {"retry", "resume"} : AskDesktop(action)
  BY <1>29 DEF AskDesktop
<1>30. CASE UNCHANGED vars
  BY <1>30 DEF vars
<1> QED
  BY <1>1, <1>2, <1>3, <1>4, <1>5, <1>6, <1>7, <1>8, <1>9, <1>10, <1>11,
     <1>12, <1>13, <1>14, <1>15, <1>16, <1>17, <1>18, <1>19, <1>20, <1>21,
     <1>22, <1>23, <1>24, <1>25, <1>26, <1>27, <1>28, <1>29, <1>30, <1>31
     DEF Next, DriveStep, AskStep

\* A message that was announced once leaves its button, across the messages that repeat it.
LEMMA BlockedStep ==
  ASSUME IInv, [Next]_vars
  PROVE  BlockedInv'
<1> USE GoldenPathAssumption
    DEF IInv, TypeOK, AskersInv, RunInv, CompletedIffOutcome, BlockedInv, Actionable,
        Decision, Goes, Says, Proceeds, Rests, NoAsk, core, owner, Askers,
        Resumable, Retryable, Terminal, Finished
<1>1. CASE DriveReads
  BY <1>1 DEF DriveReads
<1>2. CASE Mark
  BY <1>2 DEF Mark
<1>3. CASE Marked
  BY <1>3 DEF Marked
<1>4. CASE StartStep
  BY <1>4 DEF StartStep
<1>5. CASE EndStep
  BY <1>5 DEF EndStep
<1>6. CASE TimeOut
  <2>1. UNCHANGED <<run, task, announced, offered, up, lapse>>
    BY <1>6 DEF TimeOut
  <2>2. drive'.at # "idle" /\ drive'.at # "ending"
    BY <1>6 DEF TimeOut
  <2>3. drive'.at = "notify" => drive'.say = <<"timeout", drive.step>> /\ run = "cancelled"
    BY <1>6 DEF TimeOut
  <2> QED
    BY <2>1, <2>2, <2>3
<1>7. CASE WriteTimeOut
  BY <1>7 DEF WriteTimeOut
<1>8. CASE WriteFailed
  BY <1>8 DEF WriteFailed, NonTerminalStatus
<1>9. CASE WriteDenied
  BY <1>9 DEF WriteDenied, NonTerminalStatus
<1>10. CASE WriteUnmet
  BY <1>10 DEF WriteUnmet
<1>11. CASE WriteAccepted
  BY <1>11 DEF WriteAccepted
<1>12. CASE Notify
  BY <1>12 DEF Notify, Announce, Allowed
<1>13. CASE Deliver
  BY <1>13 DEF Deliver, Announce
<1>14. CASE EndDrive
  BY <1>14 DEF EndDrive, NoDrive
<1>15. CASE \E h \in Handlers : Admit(h)
  BY <1>15 DEF Admit
<1>16. CASE \E h \in Handlers : DriveAdmitted(h)
  BY <1>16 DEF DriveAdmitted, Drive, NoDrive
<1>17. CASE \E h \in Handlers : CancelWork(h)
  BY <1>17 DEF CancelWork
<1>18. CASE \E h \in Handlers : TellCancelled(h)
  BY <1>18 DEF TellCancelled
<1>19. CASE \E h \in Handlers : TellLifecycle(h)
  BY <1>19 DEF TellLifecycle
<1>20. CASE \E h \in Handlers : HandlerThrows(h)
  BY <1>20 DEF HandlerThrows
<1>21. CASE \E p \in Askers : CheckLifecycle(p)
  BY <1>21 DEF CheckLifecycle
<1>22. CASE \E p \in Askers : WriteLifecycle(p)
  BY <1>22 DEF WriteLifecycle, LifecycleStatus
<1>23. CASE \E p \in Askers : Redrive(p)
  BY <1>23 DEF Redrive, Drive, NoDrive
<1>24. CASE DriveThrows
  BY <1>24 DEF DriveThrows, NoDrive
<1>25. CASE Crash
  BY <1>25 DEF Crash, NoDrive
<1>26. CASE Restart
  BY <1>26 DEF Restart
<1>27. CASE Scan
  BY <1>27 DEF Scan, SweepTakes
<1>31. CASE SweepThrows
  BY <1>31 DEF SweepThrows
<1>28. CASE \E h \in Handlers, action \in Action : Tap(h, action)
  BY <1>28 DEF Tap
<1>29. CASE \E action \in {"retry", "resume"} : AskDesktop(action)
  BY <1>29 DEF AskDesktop
<1>30. CASE UNCHANGED vars
  BY <1>30 DEF vars
<1> QED
  BY <1>1, <1>2, <1>3, <1>4, <1>5, <1>6, <1>7, <1>8, <1>9, <1>10, <1>11,
     <1>12, <1>13, <1>14, <1>15, <1>16, <1>17, <1>18, <1>19, <1>20, <1>21,
     <1>22, <1>23, <1>24, <1>25, <1>26, <1>27, <1>28, <1>29, <1>30, <1>31
     DEF Next, DriveStep, AskStep

-----------------------------------------------------------------------------
\* The inductive invariant holds throughout.
LEMMA Invariant == Spec => []IInv
<1>1. Init => IInv
  <2> SUFFICES ASSUME Init PROVE IInv
    OBVIOUS
  <2>1. ask \in [Askers -> [at : AskPlace, next : RunStatus]]
    BY DEF Init, NoAsk, AskPlace, RunStatus
  <2>2. TypeOK
    <3>1. drive \in [at : DrivePlace, step : 0..(MaxSteps - 1), say : Message \cup {Quiet}]
      BY NoDriveType DEF Init
    <3>2. run \in RunStatus /\ announced \subseteq Message /\ offered \subseteq Action
      BY DEF Init, RunStatus, Action
    <3>3. asks \in 0..MaxAsks /\ throws \in 0..MaxThrows /\ crashes \in 0..MaxCrashes
      BY GoldenPathAssumption DEF Init
    <3> QED
      BY <2>1, <3>1, <3>2, <3>3 DEF Init, TypeOK
  <2>3. AskersInv /\ RunInv /\ LiveInv /\ BlockedInv
    BY GoldenPathAssumption
       DEF Init, AskersInv, RunInv, LiveInv, BlockedInv, CompletedIffOutcome, NoAsk, NoDrive,
           Askers, Resumable
  <2> QED
    BY <2>2, <2>3 DEF IInv
<1>2. IInv /\ [Next]_vars => IInv'
  BY TypeStep, AskersStep, RunStep, LiveStep, BlockedStep DEF IInv
<1> QED
  BY <1>1, <1>2, PTL DEF Spec

-----------------------------------------------------------------------------
(***************************************************************************)
(* The theorems.                                                           *)
(***************************************************************************)

\* The variables of the work item keep their types.
THEOREM TypeCorrect == Spec => []TypeOK
<1>1. IInv => TypeOK
  BY DEF IInv
<1> QED
  BY <1>1, Invariant, PTL

\* The run is completed exactly when its accepted result is recorded, whatever
\* cancels, retries, resumes and timeouts are under way.
THEOREM AcceptedIsFinal == Spec => []CompletedIffOutcome
<1>1. IInv => CompletedIffOutcome
  BY DEF IInv, RunInv
<1> QED
  BY <1>1, Invariant, PTL

\* LiveRunIsDriven: a live run has a drive, somebody about to start one, or one of the
\* four named reasons to have none, whatever number of runs is resumed at a startup
\* (drive, onRedrive, resumeGoldenPathRuns).
THEOREM LiveIsDriven == Spec => []LiveRunIsDriven
<1>1. IInv => LiveRunIsDriven
  BY DEF IInv, LiveInv, LiveRunIsDriven
<1> QED
  BY <1>1, Invariant, PTL

\* A blocked run leaves the owner a button, however its messages were repeated.
THEOREM BlockedIsActionable == Spec => []BlockedRunIsActionable
<1>1. IInv => BlockedRunIsActionable
  BY DEF IInv, BlockedInv, Actionable, BlockedRunIsActionable
<1> QED
  BY <1>1, Invariant, PTL

\* CheckedWritesKeepStoppedRun: the writes that check the status (retry, resume, a
\* step's timeout, failure or denial) reopen no cancelled run, and no drive reopens a
\* failed one (writeNonTerminalStatus, applyWorkGoldenPathLifecycleAction).
THEOREM CheckedWritesKeep == Spec => CheckedWritesKeepStoppedRun
<1> DEFINE Stays == /\ run = "cancelled" /\ run' # run => drive.at \in {"mark", "unmet", "accepted"}
                    /\ run = "failed" /\ run' # run =>
                         \E p \in Askers : ask[p].at \in {"write", "cancel"}
<1>1. IInv /\ [Next]_vars => [Stays]_vars
  <2> SUFFICES ASSUME IInv, Next, run' # run, run \in {"cancelled", "failed"} PROVE Stays
    BY DEF vars, core
  <2> USE DEF IInv, RunInv, core, Askers
  <2>1. ~ (UNCHANGED run)
    OBVIOUS
  <2>2. CASE DriveStep
    BY <2>2 DEF DriveStep, DriveReads, Mark, Marked, StartStep, EndStep, TimeOut, WriteTimeOut,
       WriteFailed, WriteDenied, WriteUnmet, WriteAccepted, Notify, Deliver, EndDrive,
       NonTerminalStatus, Terminal, Finished
  <2>3. ASSUME NEW p \in Askers, AskStep(p) PROVE Stays
    BY <2>3 DEF AskStep, Admit, DriveAdmitted, CancelWork, TellCancelled, TellLifecycle,
       CheckLifecycle, WriteLifecycle, LifecycleStatus, Redrive, Scan, SweepTakes, Finished
  <2> QED
    BY <2>1, <2>2, <2>3
       DEF Next, DriveThrows, HandlerThrows, SweepThrows, Tap, AskDesktop, Crash, Restart
<1> QED
  BY <1>1, Invariant, PTL DEF Spec, CheckedWritesKeepStoppedRun
=============================================================================
