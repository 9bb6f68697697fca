------------------------------ MODULE Firmware ------------------------------
(***************************************************************************)
(* Signed firmware in DeviceController                                     *)
(* (crates/openlock-core/src/device.rs): the transfer, its verification,   *)
(* the trial boot and the security version, against a bootloader that      *)
(* keeps its promises (trait Bootloader) and storage that may fail.        *)
(*                                                                         *)
(* A handler is a sequence of effects, commits to storage and calls of the *)
(* bootloader.  A crash may fall between any two, and an effect that fails *)
(* may have happened.  That operations are not repeated is the business of *)
(* DeviceController: here a client may send any command at any time.       *)
(***************************************************************************)
EXTENDS Naturals, SequencesExt

CONSTANTS
  None,
  Bytes,
  Manifests     \* signed by the firmware root for this model: [image, security]

ASSUME FirmwareAssumption ==
  /\ None \notin Bytes /\ None \notin Manifests
  /\ \A m \in Manifests : m.image \in Seq(Bytes) /\ m.image # <<>> /\ m.security \in Nat \ {0}

VARIABLES
  firmware,     \* FirmwareStatus in memory
  disk,         \* the same in durable storage
  up,           \* the controller is open and not poisoned
  todo,         \* effects the running handler has still to make
  staging,      \* bootloader: offset -> byte
  boot,         \* bootloader: the candidate, its outcome, and what is confirmed
  acked         \* history: <<offset, byte>> acknowledged in this transfer

vars == <<firmware, disk, up, todo, staging, boot, acked>>

MaxImage == Max({Len(m.image) : m \in Manifests})
Offsets == 1..MaxImage
Erased == [i \in Offsets |-> None]

Empty(security) == [phase |-> "Empty", received |-> 0, manifest |-> None, security |-> security]

Init ==
  /\ firmware = Empty(0) /\ disk = firmware /\ up = TRUE /\ todo = <<>>
  /\ staging = Erased /\ acked = {}
  /\ boot = [candidate |-> None, outcome |-> "RolledBack", confirmed |-> 0]

-----------------------------------------------------------------------------
(* The part of DeviceSnapshot.validate that is about firmware              *)
Valid(f) ==
  IF f.phase = "Empty" THEN f.manifest = None /\ f.received = 0
  ELSE /\ f.manifest \in Manifests
       /\ f.received <= Len(f.manifest.image)
       /\ f.phase \in {"Verified", "Trial", "Confirmed"} => f.received = Len(f.manifest.image)
       /\ IF f.phase = "Confirmed" THEN f.security = f.manifest.security
                                   ELSE f.manifest.security > f.security

Commit(f) == [do |-> "commit", status |-> f]
Ask(call, arg) == [do |-> call, arg |-> arg]

(* The image the staging area holds, for a manifest of that size           *)
Staged(m) == [i \in 1..Len(m.image) |-> staging[i]]

(* Bootloader: what a call does when it is carried out.  activate verifies *)
(* the image itself.                                                       *)
Carried(effect) ==
  CASE effect.do = "begin" -> staging' = Erased /\ acked' = {} /\ UNCHANGED boot
    [] effect.do = "write" ->
         /\ staging' = [i \in Offsets |->
                          LET k == i - effect.arg.offset
                          IN IF k \in 1..Len(effect.arg.data) THEN effect.arg.data[k]
                                                              ELSE staging[i]]
         /\ UNCHANGED <<boot, acked>>
    [] effect.do = "abort" -> staging' = Erased /\ UNCHANGED <<boot, acked>>
    [] effect.do = "activate" ->
         /\ Staged(effect.arg) = effect.arg.image
         /\ boot' = [boot EXCEPT !.candidate = effect.arg, !.outcome = "Pending"]
         /\ UNCHANGED <<staging, acked>>

(* Bootloader.outcome, for this exact candidate                            *)
Outcome(m) == IF boot.candidate = m THEN boot.outcome ELSE "RolledBack"

-----------------------------------------------------------------------------
(* The effects of each command, in the order execute makes them.           *)

Begin(m) ==
  <<Ask("begin", m),
    Commit([phase |-> "Receiving", received |-> 0, manifest |-> m,
            security |-> firmware.security])>>

Chunk(offset, data) ==
  IF offset = firmware.received
  THEN <<Ask("write", [offset |-> offset, data |-> data]),
         Commit([firmware EXCEPT !.received = offset + Len(data)])>>
  ELSE <<Commit(firmware)>>

(* Mutant: a complete transfer is taken for a verified one.                *)
FinishUnhashed == <<Commit([firmware EXCEPT !.phase = "Verified"])>>

Finish ==
  IF Staged(firmware.manifest) = firmware.manifest.image
  THEN <<Commit([firmware EXCEPT !.phase = "Verified"])>>
  ELSE <<>>

(* Mutant: the bootloader is told before the trial is on record.           *)
ActivateSchedulesFirst ==
  <<Ask("activate", firmware.manifest), Commit([firmware EXCEPT !.phase = "Trial"])>>

Activate ==
  <<Commit([firmware EXCEPT !.phase = "Trial"]), Ask("activate", firmware.manifest)>>

(* Mutant: staging is erased before the transfer is forgotten.             *)
AbortErasesFirst == <<Ask("abort", None), Commit(Empty(firmware.security))>>

Abort == <<Commit(Empty(firmware.security)), Ask("abort", None)>>

(* preflight: when each command is let through.  A range received before   *)
(* must be sent again with the same bytes.                                 *)
MayBegin(m) ==
  /\ firmware.phase \in {"Empty", "Confirmed", "Failed"}
  /\ m.security > firmware.security

MayWrite(offset, data) ==
  LET end == offset + Len(data)
      again == \A i \in 1..Len(data) : staging[offset + i] = data[i]
  IN /\ firmware.phase = "Receiving"
     /\ offset <= firmware.received /\ end <= Len(firmware.manifest.image)
     /\ offset < firmware.received => end <= firmware.received /\ again

MayFinish ==
  firmware.phase = "Receiving" /\ firmware.received = Len(firmware.manifest.image)

-----------------------------------------------------------------------------
Handles(effects) ==
  /\ up /\ todo = <<>> /\ todo' = effects
  /\ UNCHANGED <<firmware, disk, up, staging, boot, acked>>

FirmwareBegin == \E m \in Manifests : MayBegin(m) /\ Handles(Begin(m))

FirmwareChunk ==
  \E data \in BoundedSeq(Bytes, 2) \ {<<>>}, offset \in 0..MaxImage :
    /\ MayWrite(offset, data)
    /\ Handles(Chunk(offset, data)
               \o <<Ask("reply", {<<offset + i, data[i]>> : i \in 1..Len(data)})>>)

FirmwareFinish == MayFinish /\ Handles(Finish)
FirmwareActivate == firmware.phase = "Verified" /\ Handles(Activate)
FirmwareAbort == firmware.phase # "Trial" /\ Handles(Abort)

(* FactoryReset keeps the security version and nothing else.               *)
FactoryReset ==
  /\ firmware.phase # "Trial"
  /\ Handles(<<Commit(Empty(firmware.security))>>)

-----------------------------------------------------------------------------
(* The next effect of the running handler.                                 *)

Closed == up' = FALSE /\ todo' = <<>>

(* commit: refused if the record is not valid.  One that fails may have    *)
(* been written, and poisons the controller.                               *)
CommitNext ==
  /\ up /\ todo # <<>> /\ Head(todo).do = "commit"
  /\ LET ok == Valid(Head(todo).status)
         f == IF ok THEN Head(todo).status ELSE firmware
     IN \/ disk' \in {disk, f} /\ Closed /\ UNCHANGED firmware
        \/ /\ firmware' = f /\ disk' = f /\ UNCHANGED up
           /\ todo' = IF ok THEN Tail(todo) ELSE <<>>
  /\ UNCHANGED <<staging, boot, acked>>

(* A call of the bootloader; an error ends the handler, and the bootloader *)
(* may have carried it out all the same.                                   *)
AskNext ==
  /\ up /\ todo # <<>> /\ Head(todo).do \notin {"commit", "reply"}
  /\ \/ Carried(Head(todo)) /\ todo' \in {<<>>, Tail(todo)}
     \/ todo' = <<>> /\ UNCHANGED <<staging, boot, acked>>
  /\ UNCHANGED <<firmware, disk, up>>

ReplyNext ==
  /\ up /\ todo # <<>> /\ Head(todo).do = "reply"
  /\ acked' = acked \cup Head(todo).arg /\ todo' = Tail(todo)
  /\ UNCHANGED <<firmware, disk, up, staging, boot>>

-----------------------------------------------------------------------------
(* Mutant: only a confirmed boot ends the trial.                           *)
ReconciledConfirmed(f) ==
  IF f.phase = "Trial" /\ Outcome(f.manifest) = "Confirmed"
  THEN [f EXCEPT !.phase = "Confirmed", !.security = f.manifest.security]
  ELSE f

(* reconcile_boot                                                          *)
Reconciled(f) ==
  CASE f.phase = "Trial" /\ Outcome(f.manifest) = "Confirmed" ->
         [f EXCEPT !.phase = "Confirmed", !.security = f.manifest.security]
    [] f.phase = "Trial" /\ Outcome(f.manifest) = "RolledBack" -> [f EXCEPT !.phase = "Failed"]
    [] OTHER -> f

Opens(f) ==
  /\ firmware' = f /\ disk' = f /\ up' = TRUE /\ todo' = <<>>
  /\ UNCHANGED <<staging, boot, acked>>

(* open_stopped, after a crash or a failed commit, and poll                *)
Open == ~up /\ Valid(disk) /\ Opens(Reconciled(disk))
Poll == up /\ todo = <<>> /\ Reconciled(firmware) # firmware /\ Opens(Reconciled(firmware))

(* Either may fail to commit.                                              *)
ReconcileFails ==
  /\ todo = <<>>
  /\ disk' \in {disk, Reconciled(disk)} /\ Closed
  /\ UNCHANGED <<firmware, staging, boot, acked>>

Crash == up /\ Closed /\ UNCHANGED <<firmware, disk, staging, boot, acked>>

(* Bootloader: the trial of the candidate ends.                            *)
Resolve ==
  /\ boot.outcome = "Pending"
  /\ \/ boot' = [boot EXCEPT !.outcome = "RolledBack"]
     \/ boot' = [boot EXCEPT !.outcome = "Confirmed", !.confirmed = boot.candidate.security]
  /\ UNCHANGED <<firmware, disk, up, todo, staging, acked>>

Next ==
  \/ FirmwareBegin \/ FirmwareChunk \/ FirmwareFinish \/ FirmwareActivate
  \/ FirmwareAbort \/ FactoryReset \/ CommitNext \/ AskNext \/ ReplyNext
  \/ Open \/ Poll \/ ReconcileFails \/ Crash \/ Resolve

Spec == Init /\ [][Next]_vars

(* Handlers go on; the bootloader ends every trial; a closed controller is *)
(* opened again; the host keeps polling, and storage does not always fail. *)
LiveSpec ==
  /\ Spec
  /\ WF_vars(CommitNext \/ AskNext \/ ReplyNext) /\ WF_vars(Resolve)
  /\ WF_vars(Open) /\ SF_vars(Poll)

-----------------------------------------------------------------------------
(* Outside a trial the recorded security version is that of the image the  *)
(* bootloader last confirmed, and in a trial it is not above it: no crash  *)
(* or failed commit around activation lets an older image in afterwards,   *)
(* or shuts newer ones out.                                                *)
FloorIsConfirmed ==
  IF disk.phase = "Trial" THEN disk.security <= boot.confirmed
                          ELSE disk.security = boot.confirmed

(* What a client was told is received is still staged, byte for byte, as   *)
(* long as storage offers the transfer for resumption or activation.       *)
AcknowledgedStays ==
  disk.phase \in {"Receiving", "Verified"} =>
    \A p \in acked : p[1] <= disk.received /\ staging[p[1]] = p[2]

(* An image on record as verified is the one its manifest was signed for,  *)
(* through retries, conflicting chunks, aborts and crashes.                *)
VerifiedIsSigned ==
  disk.phase \in {"Verified", "Trial"} => Staged(disk.manifest) = disk.manifest.image

(* Every trial ends, so the lock does not refuse to move for ever.         *)
TrialEnds == (disk.phase = "Trial") ~> (disk.phase # "Trial")
=============================================================================
