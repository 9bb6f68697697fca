-------------------------- MODULE WallClockProofs --------------------------
(***************************************************************************)
(* Proofs about WallClock: the three properties of the run, for every set  *)
(* of readings, windows and times.                                         *)
(***************************************************************************)
EXTENDS WallClock, TLAPS

Clock == [floor : Nat \cup {None}, valid : BOOLEAN]
Steps == {"authorized", "preflighted", "accepted", "judged", "setting", "finishing"}
Calls ==
  {Idle}
  \cup [step : Steps, kind : {"timed", "rotate"}, arg : Windows, clock : Reads]
  \cup [step : Steps, kind : {"set"}, arg : Times, clock : Reads]

TypeOK ==
  /\ state \in Clock /\ disk \in Clock /\ poisoned \in BOOLEAN
  /\ call \in Calls /\ observed \in Nat \cup {None} /\ doubt \in BOOLEAN

(* Memory is what storage holds while the controller is open.              *)
Cached == ~poisoned => state = disk

(* A decision rests on a trusted reading inside its window, whose lower    *)
(* bound is the stored watermark.                                          *)
Grounded ==
  Decided =>
    /\ call.clock \in Readings /\ call.clock.lower <= call.clock.upper
    /\ InWindow(call.arg, call.clock)
    /\ call.clock.lower = disk.floor /\ disk.valid

(* A time that is about to be set does not lie before the watermark.       *)
Forward == At("judged") /\ call.kind = "set" => call.arg >= state.floor

IInv ==
  /\ TypeOK /\ Cached /\ Grounded /\ Forward
  /\ observed <= disk.floor
  /\ doubt => ~disk.valid

-----------------------------------------------------------------------------
(* What an audit writes is a clock whose watermark has not gone back, and  *)
(* trust stays as it was (record_wall).                                    *)
LEMMA RecordedForward ==
  ASSUME NEW s \in Clock, NEW r \in Reads
  PROVE  /\ Recorded(s, r) \in Clock
         /\ Recorded(s, r).floor >= s.floor
         /\ Recorded(s, r).valid = s.valid
<1>1. CASE s.valid /\ Credible(s, r)
  <2>1. r.lower \in Nat /\ r.lower >= s.floor
    BY <1>1, ClockAssumption DEF Credible, Reads
  <2>2. Recorded(s, r) = [s EXCEPT !.floor = r.lower]
    BY <1>1 DEF Recorded
  <2>. QED  BY <2>1, <2>2 DEF Clock
<1>2. CASE ~(s.valid /\ Credible(s, r))
  BY <1>2 DEF Recorded, Clock, None
<1>. QED  BY <1>1, <1>2

(* A refresh does not take the watermark back either.  Trust it leaves is  *)
(* trust there was, in a reading that is now the watermark                 *)
(* (refresh_clock).                                                        *)
LEMMA RefreshedForward ==
  ASSUME NEW s \in Clock, NEW r \in Reads
  PROVE  /\ Refreshed(s, r) \in Clock
         /\ Refreshed(s, r).floor >= s.floor
         /\ Refreshed(s, r).valid =>
              s.valid /\ r \in Readings /\ r.lower <= r.upper /\ Refreshed(s, r).floor = r.lower
<1>1. CASE s.valid /\ Credible(s, r)
  <2>1. r \in Readings /\ r.lower \in Nat /\ r.lower >= s.floor /\ r.lower <= r.upper
    BY <1>1, ClockAssumption DEF Credible, Reads
  <2>2. Refreshed(s, r) = [s EXCEPT !.floor = r.lower]
    BY <1>1 DEF Refreshed
  <2>3. Refreshed(s, r) \in Clock /\ Refreshed(s, r).floor = r.lower
    BY <2>1, <2>2 DEF Clock
  <2>4. Refreshed(s, r).floor >= s.floor
    BY <2>1, <2>3
  <2>. QED  BY <1>1, <2>1, <2>3, <2>4, Zenon
<1>2. CASE s.valid /\ ~Credible(s, r)
  <2>1. Refreshed(s, r) = [s EXCEPT !.valid = FALSE]
    BY <1>2 DEF Refreshed
  <2>2. Refreshed(s, r) \in Clock /\ Refreshed(s, r).floor = s.floor
    BY <2>1 DEF Clock
  <2>3. ~Refreshed(s, r).valid
    BY <2>1 DEF Clock
  <2>4. s.floor >= s.floor
    BY DEF Clock, None
  <2>. QED  BY <2>2, <2>3, <2>4, Zenon
<1>3. CASE ~s.valid
  <2>1. Refreshed(s, r) = s
    BY <1>3 DEF Refreshed
  <2>. QED  BY <1>3, <2>1 DEF Clock, None
<1>. QED  BY <1>1, <1>2, <1>3

(* An observation writes only clocks whose watermark has not gone back and *)
(* restores no trust.  The reading it returns is a trusted one whose lower *)
(* bound is the watermark it leaves (observe_hardware).                    *)
LEMMA ObservedForward ==
  ASSUME NEW s \in Clock, NEW audit \in Reads, NEW r \in Reads, NEW later \in Reads,
         NEW o, o = Observed(s, audit, r, later)
  PROVE  /\ o.clock \in Reads /\ o.state \in Clock
         /\ \A t \in o.writes \cup {o.state} :
              t \in Clock /\ t.floor >= s.floor /\ (~s.valid => ~t.valid)
         /\ o.clock # NoTime =>
              /\ o.clock \in Readings /\ o.clock.lower <= o.clock.upper
              /\ o.state.valid /\ o.clock.lower = o.state.floor
<1>. DEFINE s1 == Recorded(s, audit)
            s2 == Refreshed(s1, r)
            s3 == Recorded(s2, later)
<1>1. s1 \in Clock /\ s1.floor >= s.floor /\ s1.valid = s.valid
  BY RecordedForward
<1>2. /\ s2 \in Clock /\ s2.floor >= s1.floor
      /\ s2.valid => s1.valid /\ r \in Readings /\ r.lower <= r.upper /\ s2.floor = r.lower
  BY <1>1, RefreshedForward
<1>3. s3 \in Clock /\ s3.floor >= s2.floor /\ s3.valid = s2.valid
  BY <1>2, RecordedForward
<1>4. /\ o.writes = {s1, s2} /\ o.state = s3
      /\ o.clock = IF s2.valid /\ r.lower >= s3.floor THEN r ELSE NoTime
  BY DEF Observed
<1>. HIDE DEF s1, s2, s3
<1>5. s.floor \in Int /\ s1.floor \in Int /\ s2.floor \in Int /\ s3.floor \in Int
  BY <1>1, <1>2, <1>3 DEF Clock, None
<1>6. s1.floor >= s.floor /\ s2.floor >= s.floor /\ s3.floor >= s.floor
  BY <1>1, <1>2, <1>3, <1>5
<1>7. \A t \in {s1, s2, s3} : t \in Clock /\ t.floor >= s.floor /\ (~s.valid => ~t.valid)
  BY <1>1, <1>2, <1>3, <1>6
<1>8. ASSUME o.clock # NoTime
      PROVE  r \in Readings /\ r.lower <= r.upper /\ s3.valid /\ r.lower = s3.floor /\ o.clock = r
  <2>1. s2.valid /\ r.lower >= s3.floor /\ o.clock = r
    BY <1>4, <1>8
  <2>. QED  BY <2>1, <1>2, <1>3, <1>5
<1>9. o.clock \in Reads
  BY <1>4 DEF Reads
<1>10. o.writes \cup {o.state} = {s1, s2, s3}
  BY <1>4
<1>. QED  BY <1>3, <1>4, <1>7, <1>8, <1>9, <1>10, Zenon

-----------------------------------------------------------------------------
(* How the parts of a step are put together.                               *)

(* A call that is neither about to be decided nor about to set the time    *)
AtRest(c) == c.step \in {"idle", "authorized", "accepted", "setting", "finishing"}

(* A call that may follow observation o                                    *)
Fits(c, o) ==
  \/ AtRest(c)
  \/ c.step = "preflighted" /\ c.kind # "timed"
  \/ /\ c.step \in {"preflighted", "judged"} /\ c.kind # "set"
     /\ c.clock = o.clock /\ InWindow(c.arg, o.clock)
  \/ c.step = "judged" /\ c.kind = "set" /\ c.arg >= o.state.floor

(* A failed commit keeps the invariant if every clock it may have written  *)
(* is no earlier and no more trusted than the stored one.                  *)
LEMMA FailsKeeps ==
  ASSUME IInv, NEW writes, Fails(writes),
         \A t \in writes : t \in Clock /\ t.floor >= disk.floor /\ (~disk.valid => ~t.valid)
  PROVE  IInv'
<1>1. /\ disk' \in Clock /\ disk'.floor >= disk.floor /\ (~disk.valid => ~disk'.valid)
  <2>1. disk \in Clock /\ disk.floor >= disk.floor
    BY DEF IInv, TypeOK, Clock, None
  <2>2. disk' = disk \/ disk' \in writes
    BY DEF Fails
  <2>. QED  BY <2>1, <2>2
<1>2. TypeOK'
  BY <1>1 DEF IInv, TypeOK, Fails, Calls
<1>3. observed' <= disk'.floor
  BY <1>1 DEF IInv, TypeOK, Clock, None, Fails
<1>4. doubt' => ~disk'.valid
  BY <1>1 DEF IInv, Fails
<1>5. Cached' /\ Grounded' /\ Forward'
  BY DEF Fails, Cached, Grounded, Decided, Forward, At
<1>. QED  BY <1>2, <1>3, <1>4, <1>5 DEF IInv

(* A commit keeps it if the new clock is no earlier and the next call is   *)
(* founded on it.                                                          *)
LEMMA CommitsKeeps ==
  ASSUME IInv, NEW s \in Clock, s.floor >= disk.floor, Commits(s),
         call' \in Calls, doubt' \in BOOLEAN, doubt' => ~s.valid, Grounded', Forward'
  PROVE  IInv'
<1>1. TypeOK'
  BY DEF IInv, TypeOK, Commits, Clock
<1>2. observed' <= disk'.floor
  BY DEF IInv, TypeOK, Commits, Clock, None
<1>3. Cached'
  BY DEF Cached, Commits
<1>4. doubt' => ~disk'.valid
  BY DEF Commits
<1>. QED  BY <1>1, <1>2, <1>3, <1>4 DEF IInv

(* A call at rest claims nothing about the clock.                          *)
LEMMA AtRestIsGrounded ==
  ASSUME AtRest(call')
  PROVE  Grounded' /\ Forward'
BY DEF AtRest, Grounded, Forward, Decided, At

(* A step that only audits keeps the invariant (record_wall).              *)
LEMMA AuditsKeeps ==
  ASSUME IInv, NEW next \in Calls, AtRest(next), Audits(disk, next)
  PROVE  IInv'
<1>1. PICK r \in Reads :
        \/ Fails({Recorded(disk, r)})
        \/ Commits(Recorded(disk, r)) /\ call' = next /\ UNCHANGED doubt
  BY DEF Audits
<1>2. /\ Recorded(disk, r) \in Clock /\ Recorded(disk, r).floor >= disk.floor
      /\ Recorded(disk, r).valid = disk.valid
  BY RecordedForward DEF IInv, TypeOK
<1>3. CASE Fails({Recorded(disk, r)})
  <2>1. \A t \in {Recorded(disk, r)} :
          t \in Clock /\ t.floor >= disk.floor /\ (~disk.valid => ~t.valid)
    BY <1>2
  <2>. QED  BY <1>3, <2>1, FailsKeeps
<1>4. CASE Commits(Recorded(disk, r)) /\ call' = next /\ UNCHANGED doubt
  <2>1. doubt' \in BOOLEAN /\ (doubt' => ~Recorded(disk, r).valid)
    BY <1>2, <1>4 DEF IInv, TypeOK
  <2>2. Grounded' /\ Forward'
    BY <1>4, AtRestIsGrounded
  <2>. QED  BY <1>2, <1>4, <2>1, <2>2, CommitsKeeps
<1>. QED  BY <1>1, <1>3, <1>4

(* A step that observes keeps it if the calls it may go on as fit what was *)
(* observed (observe_hardware).                                            *)
LEMMA ObservesKeeps ==
  ASSUME IInv, ~poisoned, NEW o \in Observations, NEW calls, Observes(o, calls),
         \A c \in calls : c \in Calls /\ Fits(c, o)
  PROVE  IInv'
<1>1. state \in Clock /\ state = disk
  BY DEF IInv, TypeOK, Cached
<1>2. /\ o.clock \in Reads /\ o.state \in Clock
      /\ \A t \in o.writes \cup {o.state} :
           t \in Clock /\ t.floor >= disk.floor /\ (~disk.valid => ~t.valid)
      /\ o.clock # NoTime =>
           /\ o.clock \in Readings /\ o.clock.lower <= o.clock.upper
           /\ o.state.valid /\ o.clock.lower = o.state.floor
  <2>1. PICK audit \in Reads, r \in Reads, later \in Reads : o = Observed(state, audit, r, later)
    BY DEF Observations
  <2>. QED  BY <1>1, <2>1, ObservedForward
<1>3. CASE Fails(o.writes \cup {o.state})
  BY <1>2, <1>3, FailsKeeps
<1>4. CASE Commits(o.state) /\ doubt' = (doubt \/ ~o.state.valid) /\ call' \in calls
  <2>1. call' \in Calls /\ Fits(call', o)
    BY <1>4
  <2>2. doubt' \in BOOLEAN /\ (doubt' => ~o.state.valid)
    <3>1. doubt => ~o.state.valid
      BY <1>2 DEF IInv
    <3>. QED  BY <1>4, <3>1
  <2>3. disk' = o.state /\ state' = o.state
    BY <1>4 DEF Commits
  <2>4. Grounded' /\ Forward'
    <3>1. CASE AtRest(call')
      BY <3>1, AtRestIsGrounded
    <3>2. CASE call'.step = "preflighted" /\ call'.kind # "timed"
      BY <3>2 DEF Grounded, Decided, At, Forward
    <3>3. CASE /\ call'.step \in {"preflighted", "judged"} /\ call'.kind # "set"
               /\ call'.clock = o.clock /\ InWindow(call'.arg, o.clock)
      <4>1. o.clock # NoTime
        BY <3>3 DEF InWindow
      <4>2. /\ call'.clock \in Readings /\ call'.clock.lower <= call'.clock.upper
            /\ InWindow(call'.arg, call'.clock) /\ call'.clock.lower = disk'.floor /\ disk'.valid
        BY <1>2, <2>3, <3>3, <4>1
      <4>. QED  BY <3>3, <4>2, Zenon DEF Grounded, Forward
    <3>4. CASE call'.step = "judged" /\ call'.kind = "set" /\ call'.arg >= o.state.floor
      BY <2>3, <3>4 DEF Grounded, Decided, At, Forward
    <3>. QED  BY <2>1, <3>1, <3>2, <3>3, <3>4 DEF Fits
  <2>. QED  BY <1>2, <1>4, <2>1, <2>2, <2>4, CommitsKeeps
<1>. QED  BY <1>3, <1>4 DEF Observes

-----------------------------------------------------------------------------
(* A call in progress keeps its kind and argument from step to step.       *)
LEMMA CallGoesOn ==
  ASSUME call \in Calls, call # Idle, NEW step \in Steps, NEW c \in Reads
  PROVE  /\ To(step, c) \in Calls /\ To(step, c).step = step /\ To(step, c).clock = c
         /\ To(step, c).kind = call.kind /\ To(step, c).arg = call.arg
         /\ call.kind \in {"timed", "rotate", "set"}
BY DEF Calls, Idle, To

(* A call that begins, or none, rests on no reading yet.                   *)
LEMMA NewCalls ==
  ASSUME NEW c \in Reads
  PROVE  /\ Idle \in Calls /\ AtRest(Idle)
         /\ \A k \in {"timed", "rotate"}, w \in Windows :
              Calling(k, w, c) \in Calls /\ AtRest(Calling(k, w, c))
         /\ \A t \in Times : Calling("set", t, c) \in Calls /\ AtRest(Calling("set", t, c))
BY DEF Calls, Idle, Calling, AtRest, Steps

(* Every step keeps the invariant.                                         *)
LEMMA NextKeeps ==
  ASSUME IInv, Next
  PROVE  IInv'
<1>. NoTime \in Reads
  BY DEF Reads
<1>0. /\ call \in Calls
      /\ \A o \in Observations : ~poisoned => o.clock \in Reads
  <2>1. ASSUME NEW o \in Observations
        PROVE  o.clock \in Reads
    BY DEF Observations, Observed, Reads
  <2>. QED  BY <2>1 DEF IInv, TypeOK
<1>1. CASE HardwareChanged
  <2>1. PICK o \in Observations : Observes(o, {Idle})
    BY <1>1 DEF HardwareChanged
  <2>2. Idle \in Calls /\ Fits(Idle, o)
    BY NewCalls DEF Fits
  <2>. QED  BY <1>1, <2>1, <2>2, ObservesKeeps DEF HardwareChanged, At
<1>2. CASE AuthorizeTimed
  <2>1. PICK w \in Windows, o \in Observations :
          Observes(o, Passing(InWindow(w, o.clock), Calling("timed", w, o.clock), Idle))
    BY <1>2 DEF AuthorizeTimed
  <2>2. o.clock \in Reads /\ ~poisoned
    BY <1>0, <1>2 DEF AuthorizeTimed, At
  <2>3. \A c \in {Idle, Calling("timed", w, o.clock)} : c \in Calls /\ Fits(c, o)
    BY <2>2, NewCalls DEF Fits
  <2>. QED  BY <2>1, <2>2, <2>3, ObservesKeeps DEF Passing
<1>3. CASE Authorize
  <2>1. call' \in Calls /\ AtRest(call')
    BY <1>3, NewCalls DEF Authorize
  <2>2. Grounded' /\ Forward'
    BY <2>1, AtRestIsGrounded
  <2>. QED  BY <1>3, <2>1, <2>2 DEF IInv, TypeOK, Cached, Authorize
<1>4. CASE Preflight
  <2>1. PICK o \in Observations :
          Observes(o, Passing(MayPass(o), To("preflighted", o.clock), Idle))
    BY <1>4 DEF Preflight
  <2>2. o.clock \in Reads /\ ~poisoned /\ call # Idle
    BY <1>0, <1>4 DEF Preflight, At, Idle
  <2>3. Idle \in Calls /\ Fits(Idle, o)
    BY NewCalls DEF Fits
  <2>4. ASSUME MayPass(o)
        PROVE  To("preflighted", o.clock) \in Calls /\ Fits(To("preflighted", o.clock), o)
    <3>. DEFINE c == To("preflighted", o.clock)
    <3>1. /\ c \in Calls /\ c.step = "preflighted" /\ c.clock = o.clock
          /\ c.kind = call.kind /\ c.arg = call.arg
      BY <1>0, <2>2, CallGoesOn DEF Steps
    <3>2. call.kind = "timed" => InWindow(call.arg, o.clock)
      BY <2>4 DEF MayPass
    <3>. HIDE DEF c
    <3>3. Fits(c, o)
      BY <3>1, <3>2 DEF Fits
    <3>. QED  BY <3>1, <3>3 DEF c
  <2>5. \A c \in Passing(MayPass(o), To("preflighted", o.clock), Idle) : c \in Calls /\ Fits(c, o)
    BY <2>3, <2>4 DEF Passing
  <2>. QED  BY <2>1, <2>2, <2>5, ObservesKeeps
<1>5. CASE Accept
  <2>. DEFINE step == IF call.kind = "timed" THEN "finishing" ELSE "accepted"
  <2>1. step \in Steps /\ ~poisoned /\ call # Idle
    BY <1>5 DEF Steps, Accept, At, Idle
  <2>2. To(step, NoTime) \in Calls /\ AtRest(To(step, NoTime))
    BY <1>0, <2>1, CallGoesOn DEF AtRest
  <2>3. Audits(disk, To(step, NoTime))
    BY <1>5, <2>1 DEF Accept, IInv, Cached
  <2>. QED  BY <2>2, <2>3, AuditsKeeps
<1>6. CASE Execute
  <2>1. PICK o \in Observations :
          Observes(o, Passing(MayExecute(o), To("judged", o.clock), To("finishing", NoTime)))
    BY <1>6 DEF Execute
  <2>2. o.clock \in Reads /\ ~poisoned /\ call # Idle
    BY <1>0, <1>6 DEF Execute, At, Idle
  <2>3. To("finishing", NoTime) \in Calls /\ Fits(To("finishing", NoTime), o)
    BY <1>0, <2>2, CallGoesOn DEF Steps, Fits, AtRest
  <2>4. ASSUME MayExecute(o)
        PROVE  To("judged", o.clock) \in Calls /\ Fits(To("judged", o.clock), o)
    <3>. DEFINE c == To("judged", o.clock)
    <3>1. /\ c \in Calls /\ c.step = "judged" /\ c.clock = o.clock
          /\ c.kind = call.kind /\ c.arg = call.arg
      BY <1>0, <2>2, CallGoesOn DEF Steps
    <3>2. IF call.kind = "set" THEN call.arg >= o.state.floor ELSE InWindow(call.arg, o.clock)
      BY <2>4 DEF MayExecute, NotBelow
    <3>. HIDE DEF c
    <3>3. Fits(c, o)
      BY <3>1, <3>2 DEF Fits
    <3>. QED  BY <3>1, <3>3 DEF c
  <2>5. \A c \in Passing(MayExecute(o), To("judged", o.clock), To("finishing", NoTime)) :
          c \in Calls /\ Fits(c, o)
    BY <2>3, <2>4 DEF Passing
  <2>. QED  BY <2>1, <2>2, <2>5, ObservesKeeps
<1>7. CASE RotateKey
  <2>1. ~poisoned /\ call # Idle /\ state = disk
    BY <1>7 DEF RotateKey, At, Idle, IInv, Cached
  <2>2. disk \in Clock /\ disk.floor >= disk.floor
    BY DEF IInv, TypeOK, Clock, None
  <2>3. CASE Fails({state})
    BY <2>1, <2>2, <2>3, FailsKeeps
  <2>4. CASE Commits(state) /\ call' = To("finishing", NoTime) /\ UNCHANGED doubt
    <3>1. call' \in Calls /\ AtRest(call')
      BY <1>0, <2>1, <2>4, CallGoesOn DEF Steps, AtRest
    <3>2. doubt' \in BOOLEAN /\ (doubt' => ~disk.valid)
      BY <2>4 DEF IInv, TypeOK
    <3>. QED  BY <2>1, <2>2, <2>4, <3>1, <3>2, AtRestIsGrounded, CommitsKeeps
  <2>. QED  BY <1>7, <2>3, <2>4 DEF RotateKey
<1>8. CASE AnnounceClock
  <2>. DEFINE s == Announced(call.arg)
  <2>1. ~poisoned /\ call # Idle /\ state = disk
    BY <1>8 DEF AnnounceClock, At, Idle, IInv, Cached
  <2>2. call.arg \in Nat /\ call.arg >= disk.floor
    <3>1. call.arg \in Times
      BY <1>0, <1>8, <2>1 DEF AnnounceClock, Calls
    <3>. QED  BY <1>8, <2>1, <3>1, ClockAssumption DEF AnnounceClock, IInv, Forward
  <2>3. s \in Clock /\ s.floor >= disk.floor /\ ~s.valid
    BY <2>2 DEF Announced, Clock
  <2>. HIDE DEF s
  <2>4. CASE Fails({s})
    BY <2>3, <2>4, FailsKeeps
  <2>5. CASE Commits(s) /\ call' = To("setting", NoTime) /\ doubt' = TRUE
    <3>1. call' \in Calls /\ AtRest(call')
      BY <1>0, <2>1, <2>5, CallGoesOn DEF Steps, AtRest
    <3>. QED  BY <2>3, <2>5, <3>1, AtRestIsGrounded, CommitsKeeps
  <2>. QED  BY <1>8, <2>4, <2>5 DEF AnnounceClock, s
<1>9. CASE SetWallClock
  <2>. DEFINE s == [state EXCEPT !.valid = TRUE]
  <2>1. ~poisoned /\ call # Idle /\ state = disk /\ disk \in Clock
    BY <1>9 DEF SetWallClock, At, Idle, IInv, Cached, TypeOK
  <2>2. s \in Clock /\ s.floor = disk.floor /\ s.floor >= disk.floor
    <3>1. s \in Clock /\ s.floor = disk.floor
      BY <2>1 DEF Clock
    <3>2. disk.floor >= disk.floor
      BY <2>1 DEF Clock, None
    <3>. QED  BY <3>1, <3>2
  <2>3. To("finishing", NoTime) \in Calls /\ AtRest(To("finishing", NoTime))
    BY <1>0, <2>1, CallGoesOn DEF Steps, AtRest
  <2>. HIDE DEF s
  <2>4. CASE call' = To("finishing", NoTime) /\ UNCHANGED <<state, disk, poisoned, observed, doubt>>
    <3>1. Grounded' /\ Forward'
      BY <2>3, <2>4, AtRestIsGrounded
    <3>. QED  BY <2>3, <2>4, <3>1 DEF IInv, TypeOK, Cached
  <2>5. CASE /\ disk' \in {disk, s} /\ poisoned' = TRUE /\ call' = Idle /\ doubt' = FALSE
             /\ UNCHANGED <<state, observed>>
    <3>1. disk' \in Clock /\ disk'.floor = disk.floor
      BY <2>1, <2>2, <2>5
    <3>2. Grounded' /\ Forward' /\ Cached'
      BY <2>5 DEF Grounded, Decided, Forward, At, Cached
    <3>3. TypeOK'
      BY <2>5, <3>1, NewCalls DEF IInv, TypeOK
    <3>. QED  BY <2>5, <3>1, <3>2, <3>3 DEF IInv
  <2>6. CASE Commits(s) /\ call' = To("finishing", NoTime) /\ doubt' = FALSE
    BY <2>2, <2>3, <2>6, AtRestIsGrounded, CommitsKeeps
  <2>. QED  BY <1>9, <2>4, <2>5, <2>6 DEF SetWallClock, s
<1>10. CASE Finish
  BY <1>10, NewCalls, AuditsKeeps DEF Finish, At, IInv, Cached
<1>11. CASE Reopen
  BY <1>11, NewCalls, AuditsKeeps DEF Reopen
<1>. QED  BY <1>1, <1>2, <1>3, <1>4, <1>5, <1>6, <1>7, <1>8, <1>9, <1>10, <1>11 DEF Next

-----------------------------------------------------------------------------
(* The invariant holds from the start, is kept by every step, and implies  *)
(* what the run checks.                                                    *)
THEOREM WallClockInvariant == Spec => []IInv
<1>1. Init => IInv
  <2>. SUFFICES ASSUME Init PROVE IInv
    OBVIOUS
  <2>1. state \in Clock /\ disk = state /\ observed = disk.floor /\ observed \in Nat \cup {None}
    BY DEF Init, Clock, None
  <2>2. TypeOK /\ Cached
    BY <2>1, NewCalls DEF Init, TypeOK, Cached, Calls
  <2>3. Grounded /\ Forward
    BY DEF Init, Grounded, Forward, Decided, At, Idle
  <2>4. observed <= disk.floor
    BY <2>1 DEF None
  <2>. QED  BY <2>2, <2>3, <2>4 DEF Init, IInv
<1>2. IInv /\ [Next]_vars => IInv'
  <2>1. IInv /\ UNCHANGED vars => IInv'
    BY DEF IInv, TypeOK, Cached, Grounded, Forward, Decided, At, vars
  <2>. QED  BY <2>1, NextKeeps
<1>. QED  BY <1>1, <1>2, PTL DEF Spec

(* Whatever the clock reads and however it runs, a command or key update   *)
(* is judged by a reading whose lower bound is the stored watermark        *)
(* (observe_hardware's last filter).                                       *)
THEOREM JudgedByPersistedHolds == Spec => []JudgedByPersisted
<1>1. IInv => JudgedByPersisted
  BY DEF IInv, Grounded, JudgedByPersisted, InWindow
<1>. QED  BY <1>1, WallClockInvariant, PTL

(* For every clock, window and sequence of restarts, failed commits and    *)
(* SetClock commands, a window that ended at or before a time acted on is  *)
(* not let through again.                                                  *)
THEOREM NoRevivalHolds == Spec => []NoRevival
<1>1. IInv => NoRevival
  <2>. SUFFICES ASSUME IInv, Decided PROVE call.arg.not_after > observed
    BY DEF NoRevival
  <2>1. /\ call.clock.lower <= call.clock.upper /\ call.clock.upper < call.arg.not_after
        /\ call.clock.lower = disk.floor /\ observed <= disk.floor
    BY DEF IInv, Grounded, InWindow
  <2>2. call.clock.upper \in Int /\ disk.floor \in Int /\ observed \in Int
    BY ClockAssumption DEF IInv, Grounded, TypeOK, Clock, None
  <2>3. call.arg.not_after \in Int
    <3>1. call # Idle /\ call.kind # "set"
      BY DEF Decided, At, Idle
    <3>. QED  BY <3>1, ClockAssumption DEF IInv, TypeOK, Calls
  <2>. QED  BY <2>1, <2>2, <2>3
<1>. QED  BY <1>1, WallClockInvariant, PTL

(* A lost or rolled-back time stays on record, and lets nothing timed      *)
(* through, until the platform has taken a new one (refresh_clock,         *)
(* SetClock).                                                              *)
THEOREM DoubtIsDurableHolds == Spec => []DoubtIsDurable
<1>1. IInv => DoubtIsDurable
  BY DEF IInv, Grounded, DoubtIsDurable
<1>. QED  BY <1>1, WallClockInvariant, PTL
=============================================================================
