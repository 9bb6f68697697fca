# A TLA+ verification of OpenLock

OpenLock is an offline access protocol for BLE and NFC locks. This directory
models the parts of it that keep state. The core is what moves a bolt and
remembers who may: `DeviceController` in `crates/openlock-core/src/device.rs`,
with the storage, the sensors, the actuator and the bootloader it is plugged
into. Around it are the encrypted session and its C ABI, the BLE and NFC
framing, the client's trust store and the legacy lock. TLC checks the models on
small instances; TLAPS proves the central properties for all.

`PROJECT.json` maps every definition to source lines, and lists the components,
the runs, the mutated definitions that show each property can fail, the hazards
and the theorems.

## The system

| Part | Source | State | Operations |
| --- | --- | --- | --- |
| Device controller | `openlock-core/src/device.rs` | `DeviceSnapshot` (durable) and its copy in RAM, active drive, sample, timers, pairing window, confirmation, poisoned | `provision`, `migrate_legacy`, `open`, `handle`, `hardware_changed`, `actuator_finished`, `poll`, `open_pairing_window`, `confirm_physical` |
| Types and limits | `openlock-types` | none | validation of commands, configuration, product description |
| Session | `openlock-protocol` | role, pending requests, last request id, Noise state | `start`, `send`, `respond`, `receive`, `close` |
| Noise channel | `openlock-crypto/noise.rs` | handshake, transport, closed | `write`, `read`, `close` |
| Client trust store | `openlock-crypto/trust.rs` | pinned device keys, poisoned | `import`, `pin`, `apply_update` |
| BLE framing | `openlock-transport-ble` | one message in reassembly | `encode`, `push`, `reset` |
| NFC framing | `openlock-transport-nfc` | one message in reassembly, sequence | `encode`, `push`, `reset` |
| Legacy lock | `openlock-core/src/lib.rs` | policy, revocations, uses | `apply_policy`, `authorize`, `consume` |
| C ABI | `openlock-ffi` | a session, one output, queued events | `start`, `send`, `respond`, `receive`, `take_output`, `take_event` |
| Encoding, signatures, issuer, bindings, simulator | `openlock-crypto`, `openlock-issuer`, `bindings/` | none | stateless |

Packets reach a session through BLE or NFC framing. The host passes each
authenticated request to the one controller with the `SessionContext` it
captured at the handshake, and it forwards hardware events and polls. The
controller takes `&mut self` everywhere, so its calls are serialized. What is
concurrent is the world: the door, the motor, time, power and the store.

What makes it hard:

- a failed commit may have taken effect, and a call makes several;
- power fails at any point, with the motor running or not;
- the sensors move while a commit blocks, after the command was checked;
- a completion is late, repeated, or never comes; a stop or a start fails;
- tables of fixed size evict or refuse;
- ownership changes while relocks are owed and old sessions are open.

## Modules

| Module | Models |
| --- | --- |
| `OpenLockData` | readings, configuration, commands and rights, `DeviceSnapshot` and its validation |
| `DeviceHardware` | the controller value; `observe_hardware`, `stop_unsafe_action`, `schedule_relock`, `open_stopped`, `reconcile_boot`, `prepare_actuation`, the result of a drive, the relock of `poll` |
| `DeviceRequests` | `authorize`, `preflight`, acceptance in `dispatch`, `execute`, `claim`, refusal |
| `DeviceController` | the state machine: variables, one action per public method (and outcome of `handle`), platform, faults, properties |
| `OnceOnlyActuator` | abstract: a bolt that performs each operation at most once, one at a time; `DeviceController` implements it |
| `DeviceSessions` | `DeviceController` composed with the sessions of its host and the `SessionContext` each captured |
| `WallClock` | the clock in `DeviceController`: `refresh_clock`, `wall`, `record_wall`, the returned sample of `observe_hardware`, validity windows, `SetClock`, `RotateDeviceKey` |
| `Firmware` | transfer, verification, trial and security version against a `Bootloader`, effect by effect |
| `AuditLog` | the ring of audit events, its cursor, `ReadLog` and a reader |
| `NoiseChannel` | `NoiseChannel`: handshake, transport, closed; the `snow` library by what it lets through |
| `Session` | the operators of `Session`: `start`, `send`, `respond`, `receive`, `close` |
| `SessionNetwork` | sessions of clients and devices over a network that does anything to packets |
| `RequestChannel` | abstract: requests in order, each served once, each answer for its request; `SessionNetwork` implements it |
| `FfiSession` | the handle of the C ABI with output, events and buffers; implements `SessionNetwork` |
| `BleCodec`, `IsoDepCodec` | the two frame codecs |
| `FrameLink` | two hosts with a codec each, and the link between them; the codec is a parameter, as `FrameCodec` is a trait |
| `TrustStore` | the client's `TrustStore`, and the device that checks and takes the same key updates |
| `LegacyLock` | `LockState` and `authorize_and_consume`, with decisions of every kind that a host keeps before it consumes them |
| `DeviceOperatorProofs` | lemmas on the operators of `DeviceRequests` and the modules it extends |
| `DeviceControllerProofs` | the inductive invariant and the theorems |
| `DeviceSessionsProofs`, `WallClockProofs`, `TrustStoreProofs`, `LegacyLockProofs` | the same for those modules |
| `MC...` | instances for TLC, one per run |
| `MCDisturbed` | the controller under a bounded number of faults, used by `MCLiveness` |

### The controller

`disk` is the stored snapshot, `ctl` the `DeviceController` value (`ctl.state`
its cached snapshot, `ctl.mode` whether it exists, runs or is poisoned), `motor`
what the actuator is doing, `world` what the sensors would read now, and `call`
a drive a call has committed to but not started. `drives` is a history variable:
every `start_action` ever called.

A method that edits a snapshot is an operator from a controller record to the
next. An action composes them the way the handler does, and ends with
`Returns(r, m, writes)`: either every commit succeeded and the controller is
`r`, or one failed and the controller is poisoned with any of `writes` stored.

`DeviceSessions` adds the open sessions to these variables: a context is a
plain value that the host obtained from `context` and passes with each request.

### Parts of the controller with a module of their own

Clock, firmware and audit log each work on a few fields of the snapshot. The
rest of the controller reads of them only the firmware phase, which stops drives
during a trial, and the audit cursor, which names drives; `DeviceHardware` has
those two as well. So each part has a module with its own fields alone and the
same commit: ambiguous when it fails, closing the controller.

- **`WallClock`**: `state` and `disk` hold `clock_floor` and `clock_valid`.
  A command goes through `Authorize`, `Preflight`, `Accept`, `Execute`,
  `AnnounceClock`, `SetWallClock` or `RotateKey`, and `Finish`, one action for
  each stretch of code between two samples. `observe_hardware` reads the clock
  up to three times, and each read may say anything.
- **`Firmware`**: `todo` is what is left of a handler, a sequence of commits and
  bootloader calls. `Crash` falls between any two. `staging`, the confirmed
  image and the trial belong to the bootloader.
- **`AuditLog`**: `history` is what was recorded under each cursor of the
  domain, and `reader` a client that follows `next_cursor`.

### Session and transport

`session[n]` is the `Session` of name `n`, a new name for each connection.
`network` holds every packet ever sent, and `Deliver` takes any of them, or a
damaged one, to any session at any time: loss, repetition, reordering and
misdirection are all in that. A ciphertext is who wrote it, under which
handshake, with which nonce and what it says; `CanRead` is what the cipher
would authenticate. The headers travel in the clear and may be altered.
`FfiSession` replaces each session by a handle; a short buffer is a call that
returns the length and changes nothing.

`FrameLink` carries the frames of one direction in order unless a fault of its
list happens: `Lose`, `Repeat`, `Overtake`, `Intrude` (a frame of another
message). `Reconnect` empties the link and resets both codecs.

### Client and legacy state

`TrustStore` has the client's `snapshot`, its `disk`, and `device_key`, what
each device itself holds. `Shown` is what `get` returns, recorded in history
variables. `LegacyLock` has the lock, its storage, and `held`: the `Decision`
values the host got from `authorize` and kept. They are its own: they outlive a
reload of the lock (or are lost with the host), and may be consumed more than
once and with any grant. `consume` checks and counts a `Counted` decision only;
for any other, `AlreadyConsumed` too, it returns Ok and writes nothing. So what
lets a use through is an Ok for a `Counted` decision, and in
`authorize_and_consume` the actuator, which `MayProceed` keeps from running for
`AlreadyConsumed`. A host that actuates on the Ok of `consume` without looking at
its decision is outside what `EachUseOnce` says.

### Abstractions, and why they lose nothing the properties see

- **Handlers are atomic but for drives.** Power loss between two commits of a
  call leaves one of its snapshots. So does a commit that fails ambiguously,
  followed by `Crash`. The one gap another actor can use is between the
  acceptance (or the relock claim) and `start_action`, where the sensors may
  move. It is a separate step.
- **Repeated observations.** A request observes the hardware more than once. A
  change between two of them is the same as a `hardware_changed` call just
  before or after the request.
- **A failed stop inside an observation** ends every call alike. It is modelled
  once, in `HardwareChanged`. So is a `poll` that meets a sensor conflict or a
  bootloader that does not answer.
- **A poisoned controller** reads nothing but the drive it may have to stop, so
  `Closed` forgets its other fields.
- **A rollback of the monotonic clock** poisons without writing. That is the
  poisoning branch of `Returns` with the store unchanged.
- **Time** is a number of ticks left, or elapsed for an open door. `Tick` only
  happens while a timer can change. The ajar timer stops counting at
  `max_delay`, the largest limit a configuration may hold.
- **Maps** are total functions with 0 or `None` for an absent key, values the
  code never stores.
- **Keys and digests.** A grant and a command are their own digests. A signature
  is the signer recorded in the object.
- **The audit log** is its cursor, and whether its last event is a sensor
  conflict, the only thing the controller reads back.
- **A constructor** first stops the actuator; if that fails, nothing has
  happened and the host tries again.

Not in `DeviceController`: validity windows and the wall clock, the bytes of a
firmware image and the contents of audit events, which have modules of their
own, and battery readings and replies. `preflight` conditions that depend on
them are a free refusal (`MayRefuse`), and the platform's answers are free
(`Answers`). Grants with `max_uses = Some(0)` are
not enumerated: 0 stands for an unlimited grant. Counters are unbounded
naturals: the code uses `checked_add` on u64 and refuses at the end.

## What is checked

| Run | Distinct states | Properties |
| --- | --- | --- |
| `actuation` | 263,420 | `MotorOwned`, `RecordsMatchDrive`, `RelockArmed` |
| `requests` | 48,110 | `UseLimitHolds`, `StoreReopens`, `ResultsAreFinal`, `PerformsOnce` |
| `ownership` | 104,838 | `DomainMonotone`, `DomainIsolated`, `UnownedIsStill`, `OwnerNeedsPresence`, `FormerSessionsAreDead` |
| `liveness` | 58,448 | `DrivesEnd`, `OperationsSettle`, `RelocksHappen`, `DrivesStartSafely` |
| `wallclock` | 713 | `JudgedByPersisted`, `NoRevival`, `DoubtIsDurable` |
| `firmware` | 6,049 | `FloorIsConfirmed`, `AcknowledgedStays`, `VerifiedIsSigned`, `TrialEnds` |
| `audit` | 11,294 | `ShownIsRecorded`, `GapsAreTold` |
| `sessions` | 23,748 | `TypeOK`, `KeepsPromise` |
| `ffi` | 10,896 | `PendingAgree`, `InTurnIsAccepted`, `ImplementsSessions`, `AnswersReachCaller` |
| `frames` | 618,695 | `MessagesAreWhole`, `CleanConnectionDelivers` |
| `trust` | 10,830 | `NoRollback`, `TrustIsRooted`, `StoreRestores`, `ClientsFollow` |
| `legacy` | 27,636 | `EachUseOnce`, `DecidesByStorage`, `LegacyMonotone` |

All hold. In words:

- **`actuation`** — a lock with bolt and door sensors, one administrator, both
  relock modes, a sensor conflict. The motor is always the drive the controller
  thinks is active. Unfinished records, the in-flight flag and the relock
  deadline agree with it between calls.
- **`requests`** — two credentials and one slot of each table, so that every
  command competes: replays, another command under a used sequence, a grant
  signed twice with different limits, eviction, revocation, rotation, and
  a legacy store whose use table is already full. `ResultsAreFinal` includes
  that a callback that races the timeout of its drive does not complete it: the
  stop made by the observation inside `actuator_finished` decides. `PerformsOnce` is the
  refinement of `OnceOnlyActuator`: one drive at a time, each with a new id, and
  no operation driven twice.
- **`ownership`** — claim, reset, claim again, replaced issuer, new epoch, with
  right and wrong setup keys and confirmations that expire. Requests come through
  sessions (`DeviceSessions`), which stay open while the owner or the epoch
  changes under them; one of a former domain can do nothing, although its peer
  has a valid grant in the new one. The product has no sensors: what they read
  does not matter here.
- **`liveness`** — a lock with a door sensor and a privacy switch, which change
  after acceptance, and a trial image. No drive starts against them. The motor
  may never stop nor report; the device must cope.
- **`wallclock`** — a window is judged by the very reading that was persisted,
  no window that has passed lets anything through again, and distrust of the
  clock outlives failures and restarts.
- **`firmware`** — the security version is that of a confirmed image, bytes that
  were acknowledged are still there, `Verified` means the signed image, and a
  trial ends.
- **`audit`** — a cursor shown to a reader never comes to mean another event,
  and the gap flag is raised exactly when the reader missed something.
- **`sessions`** — two connections of clients and two sessions of the device,
  with two requests of different commands under way and answered in either
  order, up to the last request id. `KeepsPromise` is the refinement of
  `RequestChannel`.
- **`ffi`** — `ImplementsSessions` is the refinement of `SessionNetwork`: what a
  caller sees through the C ABI is what the sessions do. Several requests are
  under way and answered in any order: the two tables of pending requests agree,
  neither end refuses what comes in turn, and a handle never gets stuck as long
  as its caller drains it.
- **`frames`** — over BLE and over ISO-DEP, a reset forgets all that an earlier
  connection left. The ISO-DEP codec relies on a link that keeps order, so its
  messages are whole only there; the BLE codec stands loss, repetition and
  reordering as long as a message id does not recur in a connection. A frame of
  another message is noticed by the session above.
- **`trust`** — the client never shows an older key after a newer one, trusts
  only what descends from an import or a pin, can reload what it stored, and
  takes each update its device took.
- **`legacy`** — one use is let through once even when decisions are kept over
  a reload and a use already consumed is asked for again, the lock decides by
  what is stored, and nothing stored goes back.

### Bounds

Tables have one slot, so that full, evicting and refusing all happen with two
credentials. Every timer is one tick, so that due and not yet due both happen.
`MaxCursor` stops the calls of the first three runs after a number of audit
events: 6 in `actuation` (configuring takes three; an unlock, its drive and a
relock that a restart finds owed fit in the rest), 5 in `requests` (two accepted
drives of competing credentials and the result of the first), 7 in `ownership`
(where a reset starts the count again). Crashes and recoveries happen anywhere.

In `liveness` each crash, fault, unexpected change of a sensor and refused
request takes one of `Disturbances = 2` (the door opens and closes, or one fault
follows another), and `MaxCursor = 100` is not reached. Commands carry fixed sequence numbers, and each peer may send each
command any number of times.

| Run | Bounds and why they are enough |
| --- | --- |
| `ownership` | one session at a time, which may be the one that changes the domain and then be used, or be closed and opened again |
| `wallclock` | five readings, a nonsense one and none; windows that end before, at and after them. No bound on calls |
| `firmware` | two images of one security version and one of a newer, chunks of one and two bytes. No bound on calls or crashes |
| `audit` | two slots, pages of one and two; 7 cursors, so that a reader falls behind by more than a ring |
| `sessions` | `MaxRequestId` 3 stands for `u32::MAX` and is reached; two pending requests, so that the table fills and answers overtake each other; the ends announce different commands, which they share in part |
| `ffi` | one client and one device; two pending requests, answered out of order; four ids, so that the table fills and empties more than once |
| `frames`, BLE | messages of one to three bytes in fragments of one or two, so that they overlap after an MTU change; two messages and two faults per connection, any number of connections; ids wrap between connections |
| `frames`, ISO-DEP | three messages and two faults per connection; the sequence number wraps at 4 |
| `trust` | four versions, two key ids, two rotation keys, an issuer and a stranger; windows open, closed and empty |
| `legacy` | grants of one and two uses of one credential and one without a limit, two epochs, three held decisions |

### Fairness

`MCLiveness!LiveSpec` assumes that the host polls ("call `poll` for deadlines
and boot outcomes even when no client is connected", `docs/architecture.md`),
that time passes, that a call goes on to its drive, and that a host reopens a
controller that is poisoned or lost its power ("Storage errors poison the
controller until it reloads authoritative storage", `docs/protocol.md`). Each is
weak fairness of the step that succeeds: the faults are finitely many, as the
bound on disturbances says. That `Open` succeeds includes that the actuator in
the end obeys the stop a constructor begins with. Nothing is assumed of the
motor, of callbacks, of clients or of the bootloader, which may leave an image
on trial. `RelocksHappen` adds in its own statement that in the end the door
stays closed and no image is on trial.

`FfiSession!LiveSpec` assumes a transport that in the end brings each packet in
its turn, a device that answers what it was asked, and callers that drain output
and events with a buffer that is large enough; a close excuses all three.
`Firmware!LiveSpec` assumes that handlers go on, that the bootloader ends a
trial (its `outcome` is the one thing it promises), that a closed controller is
opened, and strongly that `poll` succeeds, since crashes may disable it again
and again.

## What is proved

`DeviceControllerProofs` proves for every product description, every set of
issuers, peers, grants, commands, samples and legacy stores that satisfies the
named assumptions, every `MaxCursor`, and without a bound on faults:

| Theorem | States |
| --- | --- |
| `Invariance` | `Spec => []IInv` |
| `TypeCorrect` | `TypeOK`, the type invariant |
| `AtMostOneDrive` | `OneDrivePerOperation`, which `PerformsOnce` includes |
| `MotorIsOwned` | `MotorOwned` |
| `NothingRunsBackwards` | `DomainMonotone` |
| `DriveIdsAreFresh` | `FreshActuationIds`, which `PerformsOnce` includes |
| `DrivesAreSafe` | `DrivesStartSafely` |
| `ImplementsOnceOnly` | `PerformsOnce`, the refinement of `OnceOnlyActuator` |

Assumptions: `InfoAssumption` (`DeviceInfo::validate`), `GrantsAssumption`,
`CommandsAssumption` (`Command::validate`), `SamplesAssumption`,
`NoneAssumption`, `TicksAssumption`, `LegacyAssumption`. TLC evaluates them in
every run of the controller.

That no operation is driven twice is not inductive: a state where a drive was
made and the watermark is behind it would allow a second. `IInv` adds
`DrivesInv`: every drive ever made lies *behind* the store, in the order of
epochs and watermarks and in that of generations and audit cursors. It adds
`CallInv`: a drive that is committed to but not started is of an operation that
has none and will get an id that none has. And it adds what makes the two
usable: the cache is what is stored (`CacheIsDurable`), an empty store is
`Absent` and unowned stores bind nothing (`StoreInv`), and the motor moves for
the active drive (`MotorInv`).

The other half is that whatever a call writes, including what a failed commit
leaves, is `Later` than what was stored. `DeviceOperatorProofs` proves this for
each operator (`Written(s)` is the set of snapshots at or after `s`). Every
action then satisfies `Forward`: it keeps `IInv` and writes something later. The
theorems follow. A new drive is strictly ahead of all old ones in both orders.
For the refinement it remains that only `DriveStarts` sets the motor in motion
(`OnlyStartsMove`), and that it is a `Perform` of the abstract actuator
(`StartPerforms`).

The other modules, each for every value of its constants:

| Module | Theorems | Inductive invariant |
| --- | --- | --- |
| `DeviceSessionsProofs` | `FormerSessionsAreDeadHolds` | `SInv`: `IInv`, and a context is of the store's generation or an earlier one, of the same one only if owner and epoch are those it was opened under. It needs `OneDomain`, a part of `Later`: two stores of one generation have one owner and epoch, so every write that changes the domain advances the generation, also the one of a commit that failed |
| `WallClockProofs` | `JudgedByPersistedHolds`, `NoRevivalHolds`, `DoubtIsDurableHolds` | memory is storage while the controller runs; a reading a call still relies on is the watermark; a time to be set is not behind it; no time acted on is ahead of storage |
| `TrustStoreProofs` | `NoRollbackHolds`, `TrustIsRootedHolds`, `StoreRestoresHolds`, `ClientsFollowHolds` | memory is storage unless the store is closed; the version shown is at most that in memory, and that at most the one in storage; all keys in both are rooted |
| `LegacyLockProofs` | `EachUseOnceHolds`, `DecidesByStorageHolds`, `LegacyMonotoneHolds` | memory is storage unless the lock is closed; every use let through is below the stored counter, or its epoch is past. Nothing is assumed of the decisions a host keeps: `consume` compares each with memory again |

`ClockAssumption`, `TrustAssumption` and the legacy lock's `LegacyAssumption`
say that numbers are naturals and that records are made of the constants.
`ClientsFollow` needs no invariant: it compares `ClientTakes` with
`DeviceTakes`, which are written separately in the code.

Only model-checked: `UseLimitHolds`, `StoreReopens`, `ResultsAreFinal`,
`DomainIsolated`, `UnownedIsStill`, `OwnerNeedsPresence`, `RecordsMatchDrive`,
`RelockArmed`, whose proofs are planned; the session
layer with its two refinements, the codecs, `Firmware` and `AuditLog`, whose
properties are about sequences of any length; and the liveness properties.
Liveness under fairness and `ENABLED`, induction over data
and `RECURSIVE` operators are out of the prover's reach; no module here is
recursive.

## Not modelled

- Encoding and signatures (`cbor`, `cose`, `wire`, `commissioning`, `firmware`
  manifests), the issuer, the NDEF bootstrap records and the stateless functions
  of the C ABI convert bytes and keep nothing. What they accept is in the models
  as the condition it amounts to: the signer of an object, the validity of a
  packet, the limits of a command. The encoding itself rests on `ciborium` and
  the cryptographic libraries.
- The Swift and Kotlin bindings wrap the C ABI one call for one.
- The simulator is a test device.
- BLE message ids that come round within one connection, after 65,535 messages
  of which a fragment is still under way: a message mixed that way is one that
  the session does not authenticate.
- A network stack below the frames, and hosts that break the contract of
  `&mut self`.

## Plan

1. Proofs of the properties of the core that are only model-checked,
   `DomainIsolated` and `UnownedIsStill` first: they extend `StoreInv`.
2. A further property of the core: no second automatic drive without a new
   unlock, configuration or movement of the bolt.
3. A proof that `SessionNetwork` implements `RequestChannel`, by an invariant
   that relates nonces to positions in the sequences of the abstract channel.
