------------------------------ MODULE AuditLog ------------------------------
(***************************************************************************)
(* The audit log of DeviceController (crates/openlock-core/src/device.rs): *)
(* numbered events in bounded durable storage, and an administrator who    *)
(* pages through them with ReadLog while they are added and overwritten.   *)
(***************************************************************************)
EXTENDS Naturals, SequencesExt

CONSTANTS
  Kinds,        \* what an event may say
  Capacity,     \* log_capacity
  Limits,       \* page sizes a reader may ask for, 1 to 16 in the code
  MaxCursor     \* the end of the cursor's range, u64::MAX in the code

ASSUME AuditAssumption ==
  Capacity \in Nat \ {0} /\ MaxCursor \in Nat \ {0} /\ Limits \subseteq Nat \ {0}

VARIABLES
  log,          \* events and next_cursor in memory
  disk,         \* the same in durable storage
  poisoned,
  history,      \* history: every event that reached storage since the reset
  reader        \* the reader's cursor, what it was shown, and whether of a gap

vars == <<log, disk, poisoned, history, reader>>

EmptyLog == [events |-> <<>>, next |-> 1]
NewReader == [after |-> 0, shown |-> {}, gap |-> FALSE]

Init ==
  /\ log = EmptyLog /\ disk = log /\ poisoned = FALSE
  /\ history = <<>> /\ reader = NewReader

-----------------------------------------------------------------------------
(* audit                                                                   *)
Audited(l, kind) ==
  LET events == Append(l.events, [cursor |-> l.next, kind |-> kind])
  IN [events |-> IF Len(events) > Capacity THEN Tail(events) ELSE events, next |-> l.next + 1]

(* Mutant: memory runs ahead of storage, and stays open when storage fails.*)
CommitsFirst(l, h) ==
  /\ log' = l
  /\ \/ disk' = l /\ history' = h
     \/ UNCHANGED <<disk, history>>
  /\ UNCHANGED poisoned

(* commit                                                                  *)
Commits(l, h) ==
  \/ log' = l /\ disk' = l /\ history' = h /\ UNCHANGED poisoned
  \/ /\ \/ disk' = l /\ history' = h
        \/ UNCHANGED <<disk, history>>
     /\ poisoned' = TRUE /\ UNCHANGED log

(* Mutant: a reader that has seen all but the first kept event is told of  *)
(* a gap.                                                                  *)
GapEarly(after, first) == after < first

Gap(after, first) == after + 1 < first

(* query, ReadLog                                                          *)
Page(after, limit) ==
  LET first == IF log.events = <<>> THEN log.next ELSE Head(log.events).cursor
      later == SelectSeq(log.events, LAMBDA e : e.cursor > after)
      events == SubSeq(later, 1, IF limit < Len(later) THEN limit ELSE Len(later))
  IN [events |-> events,
      next |-> IF events = <<>> THEN after ELSE events[Len(events)].cursor,
      gap |-> Gap(after, first)]

-----------------------------------------------------------------------------
(* A handler writes one or two events with the change they report.         *)
Write ==
  \E kinds \in BoundedSeq(Kinds, 2) \ {<<>>} :
    /\ ~poisoned /\ log.next + Len(kinds) <= MaxCursor
    /\ Commits(FoldLeft(Audited, log, kinds), history \o kinds)
    /\ UNCHANGED reader

(* FactoryReset empties the log and starts the cursor again.  It also ends *)
(* every session and grant, so the next reader is a new one.               *)
FactoryReset ==
  /\ ~poisoned /\ Commits(EmptyLog, <<>>)
  /\ reader' = IF history' = <<>> THEN NewReader ELSE reader

ReadLog ==
  \E limit \in Limits :
    LET p == Page(reader.after, limit)
    IN /\ ~poisoned
       /\ reader' = [after |-> p.next, shown |-> reader.shown \cup Range(p.events),
                     gap |-> reader.gap \/ p.gap]
       /\ UNCHANGED <<log, disk, poisoned, history>>

Reopen == log' = disk /\ poisoned' = FALSE /\ UNCHANGED <<disk, history, reader>>

Next == Write \/ FactoryReset \/ ReadLog \/ Reopen

Spec == Init /\ [][Next]_vars

-----------------------------------------------------------------------------
(* What a reader was shown is what storage recorded under that cursor, for *)
(* good: no failed commit or restart gives a cursor to another event.      *)
ShownIsRecorded ==
  \A e \in reader.shown : e.cursor <= Len(history) /\ history[e.cursor] = e.kind

(* A reader that follows next_cursor misses an event exactly when some     *)
(* page told it of a gap, however pages and overwriting interleave.        *)
GapsAreTold == reader.gap <=> {e.cursor : e \in reader.shown} # 1..reader.after
=============================================================================
