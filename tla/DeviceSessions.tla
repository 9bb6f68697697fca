--------------------------- MODULE DeviceSessions ---------------------------
(***************************************************************************)
(* The controller with the sessions its host keeps open.                   *)
(*                                                                         *)
(* When a session has been established the host asks the controller for a  *)
(* SessionContext and passes it along with every command of that session.  *)
(* A context is a plain value: it outlives changes of owner, and the       *)
(* restart of a controller whose host goes on.                             *)
(***************************************************************************)
EXTENDS DeviceController

CONSTANT MaxSessions

VARIABLES
  sessions,     \* open sessions: the context, and
                \* history: the owner and epoch it was opened under
  acted         \* history: the session that took the last step, or None

svars == <<disk, ctl, call, motor, world, drives, sessions, acted>>

InitSessions == Init /\ sessions = {} /\ acted = None

(* context                                                                 *)
Context(p) == [peer |-> p, generation |-> ctl.state.generation]

Domain == <<disk.owner, disk.epoch>>

Establish(p) ==
  /\ ctl.mode = "ready" /\ Cardinality(sessions) < MaxSessions
  /\ sessions' = sessions \cup {[context |-> Context(p), domain |-> Domain]}
  /\ acted' = None
  /\ UNCHANGED vars

Disconnect(s) == sessions' = sessions \ {s} /\ acted' = None /\ UNCHANGED vars

Request(s) ==
  /\ \E c \in Commands : Asks(s.context, c)
  /\ acted' = s
  /\ UNCHANGED sessions

(* Everything that needs no session                                        *)
Local ==
  /\ \/ Provision \/ Open \/ HardwareChanged \/ Poll \/ Drive \/ Callback
     \/ OpenPairingWindow \/ RetryStop \/ MotorRests \/ SensorsChange \/ Tick \/ Crash
     \/ \E l \in LegacyStates : MigrateLegacy(l)
  /\ acted' = None
  /\ UNCHANGED sessions

NextSessions ==
  \/ \E p \in Peers : Establish(p)
  \/ \E s \in sessions : Disconnect(s) \/ Request(s)
  \/ Local

SpecSessions == InitSessions /\ [][NextSessions]_svars

-----------------------------------------------------------------------------
(* What commands have authority over, besides the log.                     *)
Authority ==
  <<disk.owner, disk.epoch, disk.policy_version, disk.revoked, disk.watermarks, disk.uses,
    disk.bindings, disk.config, disk.firmware, call>>

(* A session opened under another owner or epoch has no effect: whatever   *)
(* valid grants its peer presents, it accepts, claims, confirms and        *)
(* changes nothing (the generation check of authorize and claim, and every *)
(* commit that advances the generation), through restarts and commits that *)
(* failed.                                                                 *)
FormerSessionsAreDead ==
  [][acted' # None /\ acted'.domain # Domain =>
       /\ UNCHANGED Authority
       /\ ctl'.mode = "ready" => ctl'.confirmation \in {ctl.confirmation, NoConfirmation}]_svars
=============================================================================
