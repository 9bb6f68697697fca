----------------------------- MODULE MCLiveness -----------------------------
(***************************************************************************)
(* What must eventually happen, and when a drive may start, on a lock with *)
(* door and privacy sensors that relocks after its door has closed, while  *)
(* new firmware is loaded, tried and decided on.                           *)
(***************************************************************************)
EXTENDS MCDisturbed

MCInfo ==
  [motor |-> TRUE, bolt_sensor |-> FALSE, door_sensor |-> TRUE, privacy_sensor |-> TRUE,
   safe_lock_without_door |-> FALSE, hold_open |-> FALSE,
   capabilities |-> {"Unlock", "Lock", "SetConfig", "FirmwareBegin", "FirmwareFinish",
                     "FirmwareActivate"},
   max_action |-> 1, max_delay |-> 1, operation_capacity |-> 1, credential_capacity |-> 1]

Relock ==
  [version |-> 1, auto_relock |-> "AfterClose", delay |-> 1, action_timeout |-> 1,
   hold_open |-> FALSE, door_ajar |-> 0]

MCCommands ==
  {Send(1, "SetConfig", Relock), Send(2, "FirmwareBegin", None), Send(3, "FirmwareFinish", None),
   Send(4, "Unlock", None), Send(5, "FirmwareActivate", None)}

MCSamples ==
  {[bolt |-> "Unsupported", door |-> "Open", privacy |-> "Off"]}
  \cup {[bolt |-> "Unsupported", door |-> "Closed", privacy |-> p] : p \in {"On", "Off"}}

-----------------------------------------------------------------------------
Steadily(A) == UNCHANGED <<world, left>> /\ A /\ ctl'.mode = "ready"

(* The host polls, time passes, a started call goes on, and a controller   *)
(* that is poisoned or lost its power is reopened and its actuator in the  *)
(* end obeys a stop.  Nothing is assumed of the motor, which may never     *)
(* come to rest or report, or of the bootloader, which may never decide on *)
(* a trial.  (What an action leaves alone comes first: TLC then dismisses  *)
(* most steps at once.)                                                    *)
Fairness ==
  /\ WF_disturbedVars(UNCHANGED drives /\ Steadily(Poll) /\ disk'.firmware = disk.firmware)
  /\ WF_disturbedVars(UNCHANGED <<disk, call, motor, drives>> /\ Steadily(Tick))
  /\ WF_disturbedVars(InCall /\ Steadily(Drive))
  /\ WF_disturbedVars(ctl.mode = "off" /\ Steadily(Open))
  /\ WF_disturbedVars(ctl.mode = "poisoned" /\ Crash /\ UNCHANGED left)

LiveSpec == DisturbedSpec /\ Fairness

(* The actuator is not left energised: by completion, by the timeout that  *)
(* poll notices or by the stop of the next constructor (stop_unsafe_action, *)
(* open) it comes to rest again.  ([]<>P is ~P ~> P; TLC checks formulas   *)
(* of this form together.)                                                 *)
DrivesEnd == []<>(motor = Idle)

(* Every accepted operation reaches a result: Accepted and Running do not  *)
(* last, even when the power fails or the motor never reports.             *)
OperationsSettle ==
  []<>(\A i \in 1..Len(disk.operations) : disk.operations[i].phase \notin Pending)

(* An owed relock is discharged once the door stays closed and no firmware *)
(* is on trial: poll claims it, also when restarts or a failed trial come  *)
(* in between.                                                             *)
RelocksHappen ==
  <>[](CanLock(world) /\ disk.firmware # "Trial") => <>[]~disk.pending_relock
=============================================================================
