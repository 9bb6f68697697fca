---------------------------- MODULE MCWallClock ----------------------------
(***************************************************************************)
(* A clock of five values that is right to within one, or is nonsense;     *)
(* windows that end before, at and after what it can say.                  *)
(***************************************************************************)
EXTENDS WallClock

MCReadings == {[lower |-> t, upper |-> t + 1] : t \in 0..4} \cup {[lower |-> 2, upper |-> 0]}
MCWindows ==
  {[not_before |-> 0, not_after |-> 2], [not_before |-> 1, not_after |-> 4],
   [not_before |-> 2, not_after |-> 6]}
MCTimes == 0..5
=============================================================================
