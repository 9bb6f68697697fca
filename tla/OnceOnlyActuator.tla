------------------------- MODULE OnceOnlyActuator -------------------------
(***************************************************************************)
(* What a device promises about its bolt, without stores, records, commits *)
(* or restarts: it moves only to perform a drive, one drive at a time, and *)
(* no operation of a credential is performed twice.                        *)
(***************************************************************************)
CONSTANTS
  Idle,         \* the actuator at rest
  None          \* the grant of a drive the device makes by itself

VARIABLES
  performed,    \* every drive so far: [id, target, grant, seq]
  moving        \* [id, target] of the drive under way, or Idle

actuatorVars == <<performed, moving>>

Init == performed = {} /\ moving = Idle

SameOperation(d, e) ==
  /\ d.grant # None /\ e.grant # None
  /\ d.grant.id = e.grant.id /\ d.grant.epoch = e.grant.epoch /\ d.seq = e.seq

(* The actuator may fail to move.                                          *)
Perform(d) ==
  /\ moving = Idle
  /\ \A e \in performed : e.id # d.id /\ ~SameOperation(d, e)
  /\ performed' = performed \cup {d}
  /\ moving' \in {Idle, [id |-> d.id, target |-> d.target]}

Rest == moving' = Idle /\ UNCHANGED performed

(* Any drive may be performed next: the one that is new tells which it was. *)
Next == Rest \/ \E d \in performed' \ performed : Perform(d)

Spec == Init /\ [][Next]_actuatorVars
=============================================================================
