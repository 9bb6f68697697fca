------------------------------ MODULE WallClock ------------------------------
(***************************************************************************)
(* Time of day in DeviceController (crates/openlock-core/src/device.rs):   *)
(* the durable watermark and trust of the clock, validity windows, and     *)
(* SetClock.  The rest of the controller's state is left out.              *)
(*                                                                         *)
(* Every read of the platform's clock may give another answer: it may have *)
(* ticked, gone back, or be missing.  NoTime also stands for an audit that *)
(* did not happen, for both leave the watermark alone.                     *)
(***************************************************************************)
EXTENDS Integers

CONSTANTS
  NoTime,
  Readings,     \* what the platform's clock may say, [lower, upper]
  Windows,      \* validity of grants and of key updates, [not_before, not_after]
  Times         \* times an administrator may set

ASSUME ClockAssumption ==
  /\ NoTime \notin Readings
  /\ \A r \in Readings : r.lower \in Nat /\ r.upper \in Nat
  /\ \A w \in Windows : w.not_before \in Nat /\ w.not_after \in Nat
  /\ Times \subseteq Nat

VARIABLES
  state,        \* clock_floor and clock_valid in memory
  disk,         \* the same in durable storage
  poisoned,
  call,         \* the command being handled, and the sample it was judged by
  observed,     \* history: the latest trusted time an earlier call acted on
  doubt         \* history: a missing or rolled-back time was seen and not repaired

vars == <<state, disk, poisoned, call, observed, doubt>>

None == -1
Idle == [step |-> "idle"]
Reads == Readings \cup {NoTime}

Init ==
  /\ state = [floor |-> None, valid |-> TRUE]
  /\ disk = state /\ poisoned = FALSE /\ call = Idle
  /\ observed = None /\ doubt = FALSE

-----------------------------------------------------------------------------
(* Reading the clock.                                                      *)

Credible(s, r) == r # NoTime /\ r.lower <= r.upper /\ r.lower >= s.floor

(* record_wall, with wall                                                  *)
Recorded(s, r) == IF s.valid /\ Credible(s, r) THEN [s EXCEPT !.floor = r.lower] ELSE s

(* refresh_clock                                                           *)
Refreshed(s, r) ==
  CASE s.valid /\ Credible(s, r) -> [s EXCEPT !.floor = r.lower]
    [] s.valid /\ ~Credible(s, r) -> [s EXCEPT !.valid = FALSE]
    [] OTHER -> s

(* Mutant: the sample is used although a later audit saw a newer time.     *)
ObservedUnfiltered(s, audit, r, later) ==
  LET s1 == Recorded(s, audit)
      s2 == Refreshed(s1, r)
  IN [writes |-> {s1, s2}, state |-> Recorded(s2, later), clock |-> IF s2.valid THEN r ELSE NoTime]

(* Mutant: the clock is read again instead of using the persisted sample.  *)
ObservedReread(s, audit, r, later) ==
  LET s1 == Recorded(s, audit)
      s2 == Refreshed(s1, r)
  IN [writes |-> {s1}, state |-> s2, clock |-> IF s2.valid THEN later ELSE NoTime]

(* observe_hardware: an audit before the refresh (a stopped drive, a       *)
(* sensor fault) or after it (a changed sensor) reads the clock again.     *)
(* What the caller gets is the refreshed sample, unless the watermark has  *)
(* passed it.                                                              *)
Observed(s, audit, r, later) ==
  LET s1 == Recorded(s, audit)
      s2 == Refreshed(s1, r)
      s3 == Recorded(s2, later)
  IN [writes |-> {s1, s2}, state |-> s3,
      clock |-> IF s2.valid /\ r.lower >= s3.floor THEN r ELSE NoTime]

Observations == {Observed(state, audit, r, later) : audit, r, later \in Reads}

(* The validity of a grant in authorize and preflight, and of a key update *)
(* in read_key_update                                                      *)
InWindow(w, c) == c # NoTime /\ c.lower >= w.not_before /\ c.upper < w.not_after

NotBelow(t, o) == t >= o.state.floor /\ (o.clock # NoTime => t >= o.clock.lower)

-----------------------------------------------------------------------------
(* commit: one that fails may still have been written, and closes the      *)
(* controller until it is opened again.                                    *)
Fails(writes) ==
  /\ disk' \in {disk} \cup writes
  /\ poisoned' = TRUE /\ call' = Idle
  /\ UNCHANGED <<state, observed, doubt>>

Commits(s) ==
  /\ state' = s /\ disk' = s /\ poisoned' = FALSE
  /\ observed' = IF s.floor > observed THEN s.floor ELSE observed

(* A call has made observation o and goes on as one of calls.              *)
Observes(o, calls) ==
  \/ Fails(o.writes \cup {o.state})
  \/ Commits(o.state) /\ doubt' = (doubt \/ ~o.state.valid) /\ call' \in calls

(* A read of the clock that only an audit makes                            *)
Audits(s, next) ==
  \E r \in Reads :
    \/ Fails({Recorded(s, r)})
    \/ Commits(Recorded(s, r)) /\ call' = next /\ UNCHANGED doubt

-----------------------------------------------------------------------------
(* The steps of a command.  Grants of administrators have no validity      *)
(* here; a timed grant stands for a command of any kind that carries one.  *)

At(step) == ~poisoned /\ call.step = step
To(step, c) == [call EXCEPT !.step = step, !.clock = c]
Calling(kind, arg, c) == [step |-> "authorized", kind |-> kind, arg |-> arg, clock |-> c]

(* A call goes on if it passes.  A sensor fault refuses it all the same.   *)
Passing(ok, next, refused) == {refused} \cup (IF ok THEN {next} ELSE {})

(* hardware_changed                                                        *)
HardwareChanged == At("idle") /\ \E o \in Observations : Observes(o, {Idle})

(* authorize                                                               *)
AuthorizeTimed ==
  /\ At("idle")
  /\ \E w \in Windows, o \in Observations :
       Observes(o, Passing(InWindow(w, o.clock), Calling("timed", w, o.clock), Idle))

Authorize ==
  /\ At("idle")
  /\ call' \in {Calling("rotate", w, NoTime) : w \in Windows}
          \cup {Calling("set", t, NoTime) : t \in Times}
  /\ UNCHANGED <<state, disk, poisoned, observed, doubt>>

(* The part of preflight that is about time                                *)
MayPass(o) ==
  CASE call.kind = "timed"  -> InWindow(call.arg, o.clock)
    [] call.kind = "set"    -> NotBelow(call.arg, o)
    [] call.kind = "rotate" -> TRUE

Preflight ==
  /\ At("authorized")
  /\ \E o \in Observations : Observes(o, Passing(MayPass(o), To("preflighted", o.clock), Idle))

(* The acceptance in dispatch reads the clock for record_wall and again    *)
(* for the audit; the greater counts, as it does in one read.              *)
Accept ==
  /\ At("preflighted")
  /\ Audits(state, To(IF call.kind = "timed" THEN "finishing" ELSE "accepted", NoTime))

(* execute, SetClock and RotateDeviceKey: the clock is observed once more. *)
MayExecute(o) ==
  IF call.kind = "set" THEN NotBelow(call.arg, o) ELSE InWindow(call.arg, o.clock)

Execute ==
  /\ At("accepted")
  /\ \E o \in Observations :
       Observes(o, Passing(MayExecute(o), To("judged", o.clock), To("finishing", NoTime)))

RotateKey ==
  /\ At("judged") /\ call.kind = "rotate"
  /\ \/ Fails({state})
     \/ Commits(state) /\ call' = To("finishing", NoTime) /\ UNCHANGED doubt

(* Mutant: the clock is trusted before the platform has been set.          *)
AnnouncedTrusted(t) == [floor |-> t, valid |-> TRUE]

Announced(t) == [floor |-> t, valid |-> FALSE]

(* SetClock distrusts the clock durably, sets it, and then trusts it.      *)
AnnounceClock ==
  /\ At("judged") /\ call.kind = "set"
  /\ LET s == Announced(call.arg)
     IN \/ Fails({s})
        \/ Commits(s) /\ call' = To("setting", NoTime) /\ doubt' = TRUE

SetWallClock ==
  /\ At("setting")
  /\ LET s == [state EXCEPT !.valid = TRUE]
     IN \/ call' = To("finishing", NoTime) /\ UNCHANGED <<state, disk, poisoned, observed, doubt>>
        \/ /\ disk' \in {disk, s} /\ poisoned' = TRUE /\ call' = Idle /\ doubt' = FALSE
           /\ UNCHANGED <<state, observed>>
        \/ Commits(s) /\ call' = To("finishing", NoTime) /\ doubt' = FALSE

Finish == At("finishing") /\ Audits(state, Idle)

(* A reset or a failed commit ends in open_stopped, which may audit an     *)
(* interrupted automatic lock.                                             *)
Reopen == Audits(disk, Idle)

Next ==
  \/ HardwareChanged \/ AuthorizeTimed \/ Authorize \/ Preflight \/ Accept \/ Execute
  \/ RotateKey \/ AnnounceClock \/ SetWallClock \/ Finish \/ Reopen

Spec == Init /\ [][Next]_vars

-----------------------------------------------------------------------------
Decided ==
  \/ At("preflighted") /\ call.kind = "timed"
  \/ At("judged") /\ call.kind = "rotate"

(* A command or key update that passed its window was judged by a reading  *)
(* whose lower bound is the watermark in durable storage: the code's       *)
(* promise that authorization consumes the exact persisted observation.    *)
JudgedByPersisted == Decided => call.clock # NoTime /\ call.clock.lower = disk.floor

(* No command or key update is let through whose window ended at or before *)
(* a time any earlier call has acted on, through clocks that go back,      *)
(* failed commits, restarts and SetClock.                                  *)
NoRevival == Decided => call.arg.not_after > observed

(* Once a call has found the time missing or rolled back, or SetClock has  *)
(* begun to change it, storage says so until the platform has taken a new  *)
(* time: no restart or failed commit brings the trust back.                *)
DoubtIsDurable == doubt => ~disk.valid /\ ~Decided
=============================================================================
