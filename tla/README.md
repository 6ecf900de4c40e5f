# TLA+ models of the ESP32-C6 Zigbee coordinator

The firmware turns an ESP32-C6 into a Zigbee network co-processor.  A host
(zigbee2mqtt, ZHA) sends commands over a serial line in the ZBOSS NCP protocol;
the firmware runs them on the ZBOSS stack and sends back responses and
indications.  All paths below are under `src/`.

## 1. The system

### Tasks

| task | what it runs |
|---|---|
| app (main) task | `app::start_int`: takes events off `m_queue`; `EVENT_OUTPUT` feeds host bytes to `protocol::on_rx` and so to the command handlers, `EVENT_INPUT` writes bytes to the host (`transport::process_input`) |
| ZBOSS task | the stack: delayed requests (`do_request`), callbacks (`req_cb`, `aps_user_payload_callback`), signals, indications, and the request watchdog's alarm |
| RX tasks | UART and USB readers, `transport::rx_pump` |
| short-lived tasks | `ncp_reset_deferred_task`, the restart task of a restore |
| timer callbacks | boot deadline, safe-mode self-heal |

Locks: the ZBOSS big lock (`zboss_lock_guard`, held by a handler and by every
ZBOSS callback), the mutex of each request table, `m_tx_sem` (a whole send),
`m_input_sem` (room and commit of bytes).

### Components

| component | state | operations | what is hard | what makes it correct |
|---|---|---|---|---|
| Asynchronous request table (`commands_helpers.h`, `request_cmd_resolver`) | slots NONE/ALLOCATION/EXEC with owner, tsn, age number | claim, publish, take by tsn or index, reclaim stale | claimed on one task, taken on another; a full table displaces the oldest waiting request | a reservation is never taken from under its do_request |
| APS data (`commands_impl.h`, APSDE_DATA_REQ) | table, record of what each ZBOSS buffer was sent for | process, do_request, confirm callback, watchdog | a confirm can be late, lost, doubled by copied buffers, or meet a slot given to someone else | a confirm answers its own request, at most once; no slot and no buffer leaks |
| ZDO requests (`request_cmd_process`) | table keyed by the stack's 8-bit tsn | process, do_request, req_cb, the simple-descriptor intercept | numbers wrap; the intercept answers before the stack times out | an answer goes to its own request, as far as its number tells; every request is settled |
| Transmit path (`protocol.cpp`, `transport.cpp`, `app.cpp`) | `m_tx_seq`, `m_input_buf`, `m_queue` | send_ack, send_data, send_int, process_input | two senders, one of them the drainer; byte buffer and event queue filled separately | numbers in order, frames whole, no deadlock |
| Link layer (`protocol.cpp`, `on_rx_packet`) | last packet number accepted | ACK, NACK, duplicate drop | lost and corrupted frames, late ACKs, reboots | in order, at most once in a boot, acknowledged means executed |
| Boot guard (`main.cpp`, NCP_RESET in `commands_impl.h`) | RTC RAM: breadcrumb, parked erase; timers | boot_guard::init, mark_zboss_alive, deadline, heal, handle_pending_erase, deferred reset | every step can be cut by a reset | safe mode exactly when earned; never mute for good |
| Raw restore (`commands_impl.h`, RESTORE_NETWORK) | session, RAM image, dirty latch, pending restart, flash | chunks, gate, erase and write, restart | flash failures, power cuts, abandoned sessions, a restart from an earlier one | rejected is harmless, completed is whole, dirty ends in a restart |
| Commissioning and signals (`zb_ncp.cpp`) | `s_init_flag`, pending NWK commands | formation, start without formation, signals | a signal answers whatever is pending | each command answered once, none left pending, success only when a network was formed |
| Raw backup (GET_NETWORK_BACKUP) | RAM snapshot | chunked pull | retries of chunks, saves and restarts under a pull, no memory | one point in time, one the stack loads |
| Structured backup and restore | blob in NVS | get, restore, apply at boot | reset between blob, erase and boot | takes effect, over erased storage, or is told to have failed; no crash loop |
| Framing parser (`on_rx_int`) | `m_rx_buffer` | signature search, header scan, resynchronise, overflow | noise, reads cut anywhere, long lengths | every frame that framing reaches is dispatched, and nothing else is |
| Routing (`write_int`, `rx_qualified_pump`) | `m_active`, a pending DE per interface | choose, qualify | two RX tasks test and store the route; a prober on the other port | replies go where the host is |
| Getters and setters | `m_channels_mask`, `s_keys`, the stack's PIB | one stack call each | those before a formation change the network it makes | - |
| Command tables, CRCs, status names | none | - | - | - |
| Antenna, build files, web installer, host scripts, patches | none of the protocol's | - | - | - |

Host command: `rx_pump` → `EVENT_OUTPUT` → `on_rx_packet` (ACK, duplicate?) →
`zb_ncp::on_rx_data` under the big lock → handler → immediate response, or a
slot and `ZB_SCHEDULE_CALLBACK` → `do_request` on the ZBOSS task → callback →
`send_cmd_data` → `send_data` → `m_input_buf` and `EVENT_INPUT` → `process_input`.

## 2. Modules

| module | models | checked by |
|---|---|---|
| `SlotTable` | the request table as operators: `Picked` (which slot start_resolve takes), `Claim`, `Release`, `Displaced` | through the next two |
| `ApsdeSlots`, `MCApsdeSlots` | APSDE_DATA_REQ and the watchdog | run `ApsdeSlots` |
| `ZdoSlots`, `MCZdoSlots` | ZDO requests and the intercept | run `ZdoSlots` |
| `TxPath` | the firmware-to-host path | run `TxPath` |
| `FrameStream` | abstract: what the receive path promises | through `RxPath` |
| `RxPath`, `MCRxPath` | the host-to-firmware path, the parser, the route; implements `FrameStream` | runs `RxPath`, `RxTooLong` |
| `CommandDelivery` | abstract: what the link promises | through `LinkLayer` |
| `LinkLayer` | ACK and duplicate drop against a retransmitting host; implements `CommandDelivery` | run `LinkLayer` |
| `BootGuard` | boots, safe mode, parked erase, NCP_RESET | run `BootGuard` |
| `RestoreNetwork` | RESTORE_NETWORK and its restarts | runs `RestoreNetwork`, `RestoreTorn` |
| `BackupPull` | GET_NETWORK_BACKUP against a host that retries | run `BackupPull` |
| `Commissioning` | the way onto the network, and RESTORE_STRUCTURED_BACKUP | runs `Commissioning`, `RestoreRefused` |
| `X_proofs`, for `ApsdeSlots`, `ZdoSlots`, `TxPath`, `BootGuard`, `RestoreNetwork`, `BackupPull`, `Commissioning` | theorems about `X` (section 4) | tlapm |
| `HostLink_proofs` | theorems about `LinkLayer` and `RxPath`, the two layers of the host link | tlapm |

The modules meet at their edges.  A frame that `RxPath` dispatches is one that
`LinkLayer` finds on its line; a command it executes is a request of
`ApsdeSlots`, `ZdoSlots`, `Commissioning`, `RestoreNetwork` or `BackupPull`; their
replies are the sends of `TxPath`.  `RxPath` and `TxPath` share `m_queue`: each
has the other's entries in it (an `EVENT_INPUT` is a 0 in `RxPath`, a host frame
takes an entry in `TxPath`).

`PROJECT.json` maps each definition to the lines it models.  Operators whose
comment begins "Mutant of" are wrong variants that a plausible slip would give;
they are not used by any specification, and replacing the right one by them
breaks the property they are listed with.

### ApsdeSlots

`slot` is the table, `queued` the do_request callbacks scheduled, `sent` the
record per buffer (`s_apsde_sent`), `buf` where each ZBOSS buffer is, `zb` what
the ZBOSS task has read and not yet acted on.  A ZBOSS callback is split where
the code lets go of the table: `DoRequest` (send) then `Publish` (S_EXEC);
`Confirm` (take and free the slot) then `Report` (send, free the buffer).  In
between the watchdog and, since the big lock is held, no handler may run: the
guard `zb.pc = "idle"` on `Process` is the big lock.  `oldCntr` is the
allocation number that tells a slot's present owner from an earlier one; it is
unbounded here, 32 bits in the code.  Each request arrives once and this makes
the state space finite.  The age of a slot saturates at `WATCHDOG_TIMEOUT`.
`DoRequest` takes its buffer out of the pool in either case (`Given`), and a rejected
send has to put it back (`GiveBack`).

ZBOSS (external) may lose a confirm (`LoseConfirm`), returning the buffer or
not, and may confirm copies of a sent buffer (`CopyBuffer`).  If it did both, a
copy could bear the id of a lost buffer whose record is still marked valid, and
would answer an old request.  No document says that it does both; the property
`ConfirmFidelity` is checked under each separately and proved under
`~(LostBuffersReturn /\ CopiesMade)`.

### ZdoSlots

The same table, keyed by the stack's transaction number, `Tsn` of them in a
cycle.  `outstanding` is the stack's own transaction table (external): one
callback per transaction, with the stack's timeout if need be, and no number
handed out while its transaction is open.  There is no watchdog.

A device puts the number of a request into its answer, and that number is all
that `req_cb` and `try_intercept_simple_desc_rsp` look at: not the device, not the
transaction.  So a frame under number `t` may answer any request that was ever
sent under `t` (`Bearing`, over the history `sentUnder`), at any time and more than
once, or none of the table's; the intercept runs on every such frame for which
a slot waits, whether or not the stack's transaction is still open.  `zb.about` is
the request the frame is about, `zb.req` the one the reply is sent for, `newest` the last
request sent under each number.  `ReplyFidelity` says that an answer to the
newest is sent for the newest.  Nothing of the kind holds of older answers: see
section 5.

### TxPath

`call[t]` is where task t's send is.  Each lock, stamp, room check, commit and
post is a step.  Bytes are units `<<frame, unit, size>>`, so that a batch taken
by `process_input` shows whether it is one whole frame.  `WaitForRoom` is one
10 ms turn of the bounded wait.  The boot-ready frame is a "raw" send: straight
to the transport, without `m_tx_sem`.  The history variable `astray` becomes
TRUE when an event is dropped, or when a raw send and another come between
each other's commit and event; `WholeWhileInStep` says that these are the only
ways a frame can lose its boundaries.  The host-to-firmware bytes and the
choice of interface are `RxPath`'s.

### RxPath and FrameStream

A byte is a pair.  The five header bytes after the signature are one
`<<"hdr", packet_len>>`, the two bytes of the data CRC one `<<"crc", frame>>`: a
damaged header is noise, and a data CRC agrees with the bytes before it only if
they are that frame's.  A retransmission is a frame of its own; `LineAssumption`
says that the line of an interface carries only its host's frames, in the order
the host numbers them.  (The definitions are `RxInit`, `RxNext`, `RxSpec`, since
`HostLink_proofs` extends `LinkLayer` too.)  `line` is what the reads of each interface will return,
chosen once, so that every way the driver may cut a session is one of the initial
states.  `Reader(i)` is an RX task: `ReadActive`, `ReadGarbage` and
`ReadSignature` are the three ways through `rx_qualified_pump`, `Flip` the store
to `m_active`, `Lock` to `LoseEvent` are `rx_pump`.  `AppTask` takes events:
`PumpOutput` fills the parser's buffer, and `NeedMore`, `Resync`, `EmptyPacket` and
`DataPacket` are the ways through one turn of `on_rx_int`'s loop.

The history `mishaps` says what was thrown away for want of room: the remainder of
a read (`"stream full"`), an event (`"event lost"`), the oldest bytes of the
parser's buffer (`"overflow"`).  Safety holds whatever is lost;
`SessionDelivered` is about behaviours in which nothing is.

`FrameStream` has one action, hand on a later frame of some host.
`RxPath` implements it (`StreamHolds`) with `dispatched`, each packet's data read
as the frame it is, or as 0, which is no frame, if it is none.  Driver
installation at start is not modelled.

### LinkLayer and CommandDelivery

Two FIFO lines that lose and corrupt.  The host numbers commands with a cycle of
`HostSeqs`, retransmits with the same number and the RETRANSMIT flag, and gives
up after `MAX_TRIES`; `giveUps` counts the commands given up in a row, since one
that is confirmed brings host and firmware back into step.  `OnRxPacket`
acknowledges first and then drops or
dispatches.  The host's own ACKs change nothing in `on_rx_packet` and are left
out.  `CommandDelivery` has three actions, execute a later command, confirm an
executed one, reboot; `LinkLayer` implements it (`INSTANCE CommandDelivery WITH`)
with its histories `executed`, `ever` and `confirmed`.  That an ACK means
execution is a guard of the abstract `Confirm`: the mapping would fail on an ACK
for a command the firmware dropped.

### BootGuard

`phase` is the point of the boot, `storage` whether the dataset loads, `nvs` whether
that partition is in use (`nvs_flash_init` fills it again).  RTC RAM
(`breadcrumb`, `pendingErase`) survives a restart and not a power cycle; `options` is
the local that `handle_pending_erase` copies the request to.  The
histories `deaths` (boots in a row that died before anybody vouched for them)
and `owed` (per partition, an erase the host was promised) state what the count and
the flag stand for without using them.  A request parked over another one leaves
a partition of the first `"overtaken"`: `EraseBeforeStack` says that this
befalls `nvs` only, and that whatever is not overtaken is erased in time.  A hung boot always meets its deadline; a slow
one only as a fault.  An NCP_RESET is also allowed in a hung boot, where the
handler would wait on the big lock: more behaviours than the code.
`EraseInterrupted` allows a reset between clearing the parked request and the
erase.  The runs keep it FALSE: TRUE breaks `EraseBeforeStack`, since
`handle_pending_erase` clears first, and nothing promises otherwise.

### RestoreNetwork

Flash is a function from units to what they hold, one image per session.  The
handler is atomic on a chunk; the commit is stepped one flash operation at a
time, so that a restart can cut it anywhere, and a restart in the middle of an
operation leaves any part of it done.  `streamed` records the images that went
past the RAM buffer, where the code has no gate.  ZBOSS's own saves are left out.
`TasksMayFail` (xTaskCreate fails) is FALSE in the runs.

### BackupPull

Flash is a function from chunks to what a write left on them: data of some write,
torn, erased.  The handler asks for chunks of one partition at a time, so that no
chunk spans both.  It holds the big lock, so ZBOSS saves between chunks and not
during one.  The host is external: it gives a pull up and begins again, and asks
again for a chunk whose answer was lost.  Over the UART a pull can outlive a
restart of the chip.  The history `excuses` names what has befallen a pull: the
snapshot could not be had (`"no memory"`), the chip restarted (`"restart"`), the
last chunk was asked for twice and the snapshot went with the first answer (`"end
lost"`), a RESTORE_NETWORK had erased flash under the running stack
(`"restore"`).  Each of them does break the property that excepts it.

### Commissioning

`phase` is the point of the boot, from NVS (`TakeBlob`, `Plant`) over the start of
the ZBOSS task to SKIP_STARTUP and `continue_zboss`.  `formation` is the one slot
of `single_cmd_delayed`; `bdb` and `signal` are the commissioning under way in
the stack and its signal on the way to `zboss_signal_handler`.  The handler of
RESTORE_STRUCTURED_BACKUP is two steps, `StoreBlob` and `Erase`, since a reset can
come in between; `storing` says that it holds the big lock.  An image is one
value, valid ones only: what the host sends is checked before anything is
touched.  NWK_START_WITHOUT_FORMATION is answered at once, because `app::start`
starts the stack before it takes the first command.

What the host sets before the network is there goes into the next formation.  SET_PAN_ID,
SET_EXTENDED_PAN_ID, SET_ZIGBEE_CHANNEL_MASK and SET_NWK_KEY are `SetParameters`, and
NWK_FORMATION sets mask and extended PAN id itself before it asks for the
commissioning, also when that is refused.  `imposed` is TRUE from the first
of these over a planted image until the next boot: the formation then makes a network
that is not the image's.  NWK_FORMATION may also bring the image's own values, or fail
before it sets any.  What such a setter does to a network that runs is the stack's
and not modelled.

External: the stack loads a dataset in flash over what was planted, runs one
commissioning at a time and refuses another (before it is up it may refuse the
first), keeps a planted network when it forms, unless `imposed`, and saves when it
likes.  The
history `disturbed` is FALSE from a restore answered with success until a reset
from outside, a safe-mode boot, a failure, a panic in a setter, or a save of the
stack in the second before the restart.  One of the failures is a restart task that could
not be created: `Erase` then answers OK and nothing restarts.
`AppliedOnBlank` excepts what is disturbed, `RestoreTakesEffect` also another restore and
parameters imposed in the boot that has taken the image; without the last exception it
is violated (`RestoreTakesEffect` fails on an NWK_FORMATION between `Plant` and
`BdbEnds`).

A formation signal answers whatever is pending, also a command that came after
the formation ended: `OkMeansFormed` speaks of the boot and not of the command.

## 3. Runs

| run | bounds | shows |
|---|---|---|
| `ApsdeSlots` | 3 requests, 2 slots, 2 buffers, timeout 2 ticks, copies made, lost buffers kept | types; reservations; fidelity, single answers, silence after giving up; one home; no buffer and no slot leaks |
| `ZdoSlots` | 4 requests, 2 slots, 3 numbers | types; answers reach their own request, once; all settle |
| `TxPath` | 5 sends of 1 or 2 units, buffer of 4, queue of 3, 2 host frames | numbering, reserved room, whole frames, every send returns |
| `LinkLayer` | 5 commands, 3 numbers, 4 transmissions, 2 faults, 1 given up in a row, 1 reboot | refinement of `CommandDelivery`; waits end |
| `RxPath` | 3 frames, one of which holds what looks like a long header; a session cut into two reads at every place; damage, loss, garbage; a prober or a second host; parser's buffer of 19, stream of 6, queue of 2, 1 retry | refinement of `FrameStream`; events match bytes; the host keeps the route; a session is delivered |
| `BootGuard` | limit 3, 2 deferred resets, 5 resets from outside, 1 power cycle, 2 faults | types; safe mode, erase order, reachability |
| `RestoreNetwork` | 1 + 2 units, chunks of up to 2, 2 images, 2 boots, 1 power cut | the four restore properties |
| `BackupPull` | 1 + 2 chunks, 2 writes, 2 restarts, 2 pulls, 1 lost answer | one point in time, one that loads, memory given back |
| `Commissioning` | 2 images, one a panic, 2 restores, 2 commands, 1 reset, 1 safe boot, 1 failure | the six commissioning properties |
| `RxTooLong`, `RestoreTorn`, `RestoreRefused` | | section 5 |

Why these are enough.  Three requests on two slots give a full table, a
displaced request and a slot used again; the fourth ZDO request wraps the three
numbers, so that the fourth and first share one, while the first's callback or its
answer off the air is still to come (`MCFairSpec` starts the numbers at 0: they are
alike up to rotation).  A buffer of four units and a
queue of three are filled and overrun by frames of one and two units.  Two
faults lose a frame and its ACK; five commands take the numbers round.  A stream
of six bytes and a queue of two are overrun by a session of up to twenty; the
parser's buffer of nineteen takes the longest read, and a damaged frame, the header
inside it and the frames after it stand in it together; two reads put the cut at
every place of the signature, the header and the body.  Five resets reach the
limit of three and go on in safe mode.
Three units and chunks of
up to two give both orders of a chunk that crosses from one partition into the
other and the shortest torn image; two boots and one power cut let a restart
fall into a later commit.  Three chunks have a first, a last and one between; two
writes fall to either side of one, and the second pull finds what the first left.  A
second restore meets the restart of the first, and two commands the busy slot and
a signal meant for the other.

`CHECK_DEADLOCK FALSE` is set where the bounds end the behaviour (all requests
answered, all sends sent, all lines read, all boots used up).

### Fairness

- `ApsdeSlots`: the ZBOSS task runs what is scheduled, time passes and the
  watchdog's alarm comes back; no fairness on confirms, so all may be lost.
- `ZdoSlots`: scheduled callbacks run, and the stack calls back for every
  transaction (it has its own timeout).  None on requests or on the intercept.
- `TxPath`: FreeRTOS runs every ready task.  None on indications or host frames.
- `RxPath`: FreeRTOS runs every ready task, and what is on a line is read.
- `LinkLayer`: the host's timer runs and both ends read what has arrived.  None
  on giving up, faults or reboots.
- `BootGuard`: the processor runs, timers expire, sleeping tasks wake.  None on
  resets, faults, saves, or on the host's NCP_RESET.
- `Commissioning`: the boot goes on, the ZBOSS task finishes what it began, the
  restore handler runs to its end, the restart task wakes.  None on host commands,
  resets, or the stack's saves.
- `RestoreNetwork`, `BackupPull`: safety only.

## 4. Proofs

Every theorem is proved for every value of the constants that satisfies the
assumptions named in the modules; what it assumes beyond them is in the last
column and in its statement.

| module | theorems | beyond the modules' assumptions |
|---|---|---|
| `ApsdeSlots_proofs` | `TypeCorrect`, `ReservationsKept`, `BuffersReturned`, `ConfirmsFaithful`, `AnsweredAtMostOnce`, `GivenUpStaySilent`, `RequestsHaveOneHome` | `ConfirmsFaithful`: not both `LostBuffersReturn` and `CopiesMade` |
| `ZdoSlots_proofs` | `TypeCorrect`, `RepliesFaithful`, `AnsweredAtMostOnce` | none |
| `TxPath_proofs` | `NumbersAreInOrder`, `RoomIsKept`, `FramesStayWhole` | none |
| `HostLink_proofs`, `LinkLayer` | `LinkDelivers` | `NumbersOutlast` |
| `HostLink_proofs`, `RxPath` | `EventsAreBacked`, `HostKeepsRoute`, `StreamIsFrames` | none (`LineAssumption` is the module's) |
| `BootGuard_proofs` | `TypeCorrect`, `SafeModeIsEarned`, `ErasePrecedesStack` | `ErasePrecedesStack`: `~EraseInterrupted` |
| `RestoreNetwork_proofs` | `RejectionsAreHarmless`, `DirtyRestarts`, `CompletedAreWhole`, `GateHolds` | `DirtyRestarts`: `~TasksMayFail` |
| `BackupPull_proofs` | `PullsAreOnePoint`, `SnapshotIsFreed`, `BackupsLoad` | none |
| `Commissioning_proofs` | `AppliesOnBlank`, `AnswersOnce`, `SuccessMeansFormed` | none |

None of the properties is inductive alone.  Each module proves an invariant
`Inv` with `Init => Inv` and `Inv /\ [Next]_vars => Inv'`, one step per action.
Where a module has no `TypeOK`, the types are the first part of `Inv`.

- `ApsdeSlots`, in three layers.  `Inv1`: types, `ReservationPending`, and that a
  used slot has an owner; a slot in ALLOCATION has exactly one do_request coming,
  since `start_resolve` never picks it (lemma `PickedNotReserved`).  `Inv2`:
  numbers given out are below the counter (`NumbersBelow`), so a valid record
  that bears the number of a slot in use is that of the slot's own request
  (`RecordsOwn`); `HeldByReport` ties a held buffer to its report and needs
  nothing of ZBOSS, so that only `ConfirmsFaithful` carries the assumption.  `Inv3`: a
  request still to come, in a slot or in the reply under way has been neither
  answered nor given up (`Places`), and is in one place.
- `ZdoSlots`: `Waiting` ties a slot in EXEC to the open transaction of its own
  number and request, which is the newest under it.  The stack gives no number twice
  while its transaction is open, so a number finds the slot of its newest request or
  none, whatever frame bears it: hence fidelity.  `OnePlace` gives single answers.
- `TxPath`: `Holds` says at which place of a send its task holds which lock, so
  that one task at most is between stamp and commit, and one at most between
  room and commit.  `Numbers` says that a stamped send bears the newest number.
  For whole frames there is a second invariant over the first, `InStep`: while
  nothing is `astray`, some function from the entries of `m_queue` to places in
  the stream gives each `EVENT_INPUT` one whole frame and an `EVENT_OUTPUT`
  nothing (`Covers`), and past the last entry there is the one frame whose event
  is about to be posted, or nothing (`Ends`).  A commit, a post and a batch of
  `process_input` each move that function on.
- `LinkLayer`: at every moment there is a command `l` such that all from `l` on were
  given up, but for the one under way, and nothing on the lines or in the
  firmware's memory is about a command before `l` (`Window`).  From `l` on there
  are at most `MAX_GIVEUPS + 2` commands, so under `NumbersOutlast` (`MAX_GIVEUPS + 2 <=
  HostSeqs`) equal numbers mean equal commands.  So a frame dropped as a
  duplicate is one executed, and an ACK that bears the current number is for
  the current command.  With the three numbers of the real hosts that is one
  command given up in a row.  Section 5 shows what happens after two.
- `RxPath`: `RxInv` is its types and four more parts.  `Pumping`: who is between the
  send and the post holds `m_output_sem`, so one reader at most has bytes in the
  stream that no entry speaks of yet.  `Backed`: what the queue claims and that
  reader's size together are at most the length of the stream, and are all of it
  unless an entry was lost; the sum over a queue of any length is the cardinality of
  `Claims`, so that appending and taking an entry are facts about finite sets
  (`ClaimsAppend`, `ClaimsTail`) and not an induction.  `Routed`: a pending DE is the
  last byte read, so a DE AD across the edge of two reads is one of that line
  (`SignatureSpeaks`), and only an interface that has spoken is on the way to, or
  in, `m_active`.  It has to carry the reader that has tested the route and not yet
  stored it, and the frames offered to both before any host had spoken.
  `Flowing`: every CRC of a frame is in one of five places in a row (dispatched,
  `m_rx_buffer`, the stream, a reader, its line), each host's in its order in every
  place and between places.  Bytes are only cut off, moved on and appended
  (`SliceCrcs`, `ConcatCrcs`, `SplitCrcs`), so whatever the parser does, resynchronise
  or overflow, keeps it; and a body whose CRC is right holds its frame's CRC
  (`PacketIs`), hence is later than all that was dispatched.  This is the step of
  `FrameStream`.
- `BootGuard`: `CountIsDeaths` relates the breadcrumb to the boots that died
  unvouched-for, at every phase of a boot, safe or not, vouched for or not;
  `TasksRun` says that no boot has reset tasks before it takes commands.
  `DueIsAsked` says, for each partition, in which phases an erase the host was promised
  is parked or under way, and that parking over another request never loses `zb_storage`.
- `RestoreNetwork`: `InSession` says how much of which image has been taken and
  where, `InCommit` how far the flash has come at each step of a commit.
  `Untouched` is `RejectedIsHarmless` made inductive.  The restart of a dirty end
  (`RestartDue`) is proved on top.
- `BackupPull`: `InPull` says that half way through a pull the snapshot is there
  and what the host has got agrees with it; `StackLoadable`, that a stack which has
  joined runs on a loadable dataset until a restore erases it.
- `Commissioning`: `Blank` says that while a blob is parked by a finished handler,
  and nothing has disturbed the restore, storage is erased and the restart due;
  `Handling`, that the handler runs in a boot whose stack is started.  `Pending` says that only an
  unanswered command is in the slot.

Every invariant and every refinement that a run checks is proved.  Model-checked
only: the liveness properties (`NoSlotLeak`, `EventuallySettled`, `SendsReturn`,
`WaitsEnd`, `SessionDelivered`, `NeverMute`, `ParkedEraseRecovers`,
`FormationSettles`, `NoCrashLoop`, `RestoreTakesEffect`), since TLAPS does not do
liveness under fairness.  The three runs of section 5 are counterexamples, and
what they refute is not proved of anything.

The proofs about `RxPath` take frames as their CRCs: two frames differ in theirs, and
noise does not bear one.  That a 16-bit CRC can take noise for a frame is
outside the model.  They say nothing of how much is delivered; that is
`SessionDelivered`, by TLC alone, and its `Packets` is a fold over the bytes, on
which an induction would be needed.

## 5. Where the code and its documents disagree

Each has a run that ends in the violation, and an entry under "findings".

- `RxTooLong`: `on_rx_int` keeps the newest `RX_BUFFER_SIZE` = 1024 bytes, so a longer
  frame loses its signature and is never dispatched.  The structured backup of 59
  to 64 devices is such a frame: it can be read and not restored, although
  `backup_structured.h:68` gives 64 as the bound of what fits.
- `RestoreTorn`: the restart of one session falls into the commit of the next.
- `RestoreRefused`: RESTORE_STRUCTURED_BACKUP whose erase fails is answered with a
  failure and applied by the next boot all the same.

Seen in the same models and not run on their own:

- With the event queue full, `send_event` drops the event of bytes already in
  `m_input_buf` (`app.cpp:42`, `transport.cpp:206`); every later write takes the
  wrong bytes.  `TxPath` shows it with `AtBoot = FALSE` and a queue of 2.
- After two commands given up in a row the packet number comes round, and a
  first delivery under the RETRANSMIT flag is dropped as a duplicate
  (`protocol.cpp:166`); `test/dup_drop_check.py:14` takes such a frame for a resend.
  `LinkLayer` with `MAX_GIVEUPS = 2` breaks `DeliveryHolds`.
- "can no longer mutate while it is being pulled" (`README.md:48`) does not hold
  of a pull without memory for the snapshot, of one that outlives a restart over
  the UART, or whose last chunk is asked for twice: the exceptions of
  `OnePointInTime`.
- RESTORE_NETWORK erases flash under the running stack, and a backup begun before the
  restart is answered with success and holds nothing: the exception of
  `NoPoisonedBackup`.
- The cap on the clusters of a simple descriptor lowers `in_count` after the place
  of `out_count` was computed from it (`zb_ncp.cpp:962`).
- An answer that outlives its number is delivered to the newer request under it.
  `req_cb` and the intercept compare the number alone; the intercept's comment
  (`zb_ncp.cpp:889`) calls a frame stale only if no slot waits under its number.
  `ZdoSlots` with `zb.about \in {zb.req, NoReq}` for every report is violated.
- An NVRAM erase (NCP_RESET 1) parked within the 300 ms of a factory reset (2) is parked
  over it: both were answered OK, and `nvs` is not erased (`commands_impl.h:99`).
- A network restored by RESTORE_STRUCTURED_BACKUP is formed with what the host has set
  since the restart: an NWK_FORMATION that reaches the chip before the stack has formed
  the planted network changes its channels and extended PAN id
  (`commands_impl.h:822`, `837`).
- RESTORE_STRUCTURED_BACKUP answers OK also if the restart task was not created
  (`commands_impl.h:2910`): zb_storage is erased and the old network goes on running,
  until a reset or its next save.
- The boot-ready frame goes to the transport without `m_tx_sem`, so its event and
  another's can change places (the reason for `astray`).
- The app task can park on `m_tx_sem` while the holder waits for it to make room,
  which `protocol.cpp:62` excludes, and only the bound of the wait resolves it.
- `app::init` initialises ZBOSS on safe-mode boots too, and a safe-mode boot uses
  up a parked structured restore; a safe-mode boot keeps its count, where
  `boot_guard.h:24` says that it resets it.
- RESTORE_NETWORK latches its restart as pending before a task creation that is not
  checked (`TasksMayFail` breaks `DirtyEndsInRestart`).

## 6. Not modelled

- The immediate getters and setters wrap one stack call each.  What they keep
  (`m_channels_mask`, `s_keys`, the stack's PIB) is read back by the stack alone, whose
  contract for it is not in the sources; `Commissioning` has only that those set before a
  formation are used by it.
- Of ZDO, the layouts of requests and responses, and the status made up for a
  permit-join on the coordinator itself (`commands_impl.h:1160`): data the
  properties do not tell apart.  The copy of the simple descriptor is a pure
  function (section 5 names its flaw).
- Signals that only become indications keep no state.
- GET_STRUCTURED_BACKUP changes no state; the encoding of the image (TLVs, its
  CRC) is one value in `Commissioning`, and the page gate of RESTORE_NETWORK a set
  of good images.
- Driver installation at start, antenna pins and build files.
- Command tables, status names and CRC tables are constants.
- The web installer, host scripts, patches and binaries take no part in the
  protocol; the scripts' expectations are used as statements about it.

## 7. Plan

Done, in this order: the request table and APS data, ZDO, the transmit path, the
link layer with its abstract specification, the boot guard, the raw restore,
commissioning and the structured restore, the receive path with its abstract
specification, the raw backup; and proofs of every invariant and refinement that
the runs check.

Next, proofs: what the parser may not skip (a packet that stands whole at the front
of `m_rx_buffer`), the safety half of `SessionDelivered`.

Then, models: the pure algorithms against reference definitions (TLV walk, NVRAM page
gate, simple-descriptor copy); the permit-join status.
