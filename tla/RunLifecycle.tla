---------------------------- MODULE RunLifecycle ----------------------------
(***************************************************************************)
(* What the supervision of scheduled runs promises, with every runtime     *)
(* call, snapshot and metadata block left out: a run goes from queued to   *)
(* running, may block, and may be cancelled; a terminal run never moves    *)
(* again; its mission (per-fire missions own exactly one run) is cancelled *)
(* only once the run is terminal.                                          *)
(*                                                                         *)
(* RunSupervision implements this module.                                  *)
(***************************************************************************)

CONSTANT RunIds          \* identities of the run rows (CoreRunRecord.id)

VARIABLES runStatus,     \* CoreRunRecord.status, "none" before admission
          missionStatus  \* MissionRecord.status of the run's mission

lifecycleVars == <<runStatus, missionStatus>>

ActiveStatus == {"queued", "running", "blocked"}
RunStatus == ActiveStatus \cup {"none", "cancelled"}
MissionStatus == {"none", "queued", "running", "cancelled"}

LifecycleTypeOK ==
  /\ runStatus \in [RunIds -> RunStatus]
  /\ missionStatus \in [RunIds -> MissionStatus]

LifecycleInit ==
  /\ runStatus = [r \in RunIds |-> "none"]
  /\ missionStatus = [r \in RunIds |-> "none"]

-----------------------------------------------------------------------------
\* One core mutation writes the mission and its run.
AdmitRun(r) ==
  /\ runStatus[r] = "none"
  /\ runStatus' = [runStatus EXCEPT ![r] = "queued"]
  /\ missionStatus' = [missionStatus EXCEPT ![r] = "queued"]

StartRun(r) ==
  /\ runStatus[r] = "queued"
  /\ runStatus' = [runStatus EXCEPT ![r] = "running"]
  /\ missionStatus' = [missionStatus EXCEPT ![r] = "running"]

BlockRun(r) ==
  /\ runStatus[r] = "running"
  /\ runStatus' = [runStatus EXCEPT ![r] = "blocked"]
  /\ UNCHANGED missionStatus

CancelRun(r) ==
  /\ runStatus[r] \in ActiveStatus
  /\ runStatus' = [runStatus EXCEPT ![r] = "cancelled"]
  /\ UNCHANGED missionStatus

CancelMission(r) ==
  /\ runStatus[r] = "cancelled"
  /\ missionStatus[r] \in {"queued", "running"}
  /\ missionStatus' = [missionStatus EXCEPT ![r] = "cancelled"]
  /\ UNCHANGED runStatus

LifecycleNext ==
  \E r \in RunIds :
    \/ AdmitRun(r)
    \/ StartRun(r)
    \/ BlockRun(r)
    \/ CancelRun(r)
    \/ CancelMission(r)

LifecycleSpec == LifecycleInit /\ [][LifecycleNext]_lifecycleVars

=============================================================================
