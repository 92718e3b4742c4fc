# TLA+ models of MingoCAN (`can_flasher`)

MingoCAN is a host tool (a Rust library with a CLI and a Tauri desktop
application, the Studio) that talks to an STM32 bootloader and to the firmware
applications of a car over CAN: it discovers nodes, flashes them, pulls their
log files and watches their bus.  This directory holds TLA+ models of the parts
of it where concurrency, loss and retry make the code hard to test, TLC
configurations that check them on small instances, and TLAPS proofs, for every
module, of all the safety properties that the passing runs check.

Paths below are relative to the repository root.  `PROJECT.json` maps every
definition to the source lines it stands for.

    tlc -workers 2 -config Session_safety.cfg MCSession   # a run
    tlapm SessionProofs.tla                               # proofs; likewise
                                                          # every *Proofs.tla

## 1. Inventory

| Component | Source | State | Operations | Interacts with | What makes it correct |
|---|---|---|---|---|---|
| Session | `src/session/mod.rs` | `command_lock`, reply channel, `connected`, keepalive slot and task, RX daemon | `connect`, `send_command`, `send_command_retrying`, `send_session_gated`, `app_connect`, `broadcast`, `reboot_and_connect`, `disconnect`, `Drop` | backends (frames), every command above it | one command in flight; replies pair with requests; reconnect is atomic; operations return; nothing survives a disconnect, and a dropped session releases its adapter |
| ISO-TP | `src/protocol/isotp.rs` | segmenter cursor; reassembler buffer, expected sequence number, timer | `next`, `feed`, `tick`, `reset` | RX daemon, TX path | what is delivered was sent; resynchronisation after any fault |
| Flash engine | `src/flash/mod.rs`, `src/cli/flash.rs` | plan, report, attempt; the device's flash and metadata | plan, erase, write, verify, commit; Ctrl-C; re-run | Session | success means installed; nothing outside the plan changes; a re-run recovers |
| LOGFS pull | `src/logfs_client.rs` | handle, bytes, stalled budget | open, read, resync, CRC, close, cancel | Session, the application's log service | the bytes are the file's; progress is never punished; handles are released; it ends |
| Stub bootloader, virtual bus | `src/transport/stub_device.rs`, `virtual_bus.rs` | session latch, flash, log handles | one handler per opcode | the other end of the models | the reference for the peer in every model |
| Process isolation | `src/transport/isolation.rs` | helper process, two pipes, reader thread, frame queue | spawn, send, recv, drop; run_host | vendor backends | no frame lost before `Disconnected`; `Disconnected` is final; drop returns with the helper reaped |
| SLCAN, PCAN, Vector, SocketCAN | `src/transport/*.rs` | reader threads, handles | open, send, recv, drop | Session | reader life cycle, no loss on a slow consumer |
| Discover | `src/cli/discover.rs` | table of replies | broadcast, follow-up pings | Session | a row holds its own node's answers |
| Boot entry | `Session::reboot_and_connect`, `app_control.rs` | trigger and poll loop, deadline | trigger, CONNECT poll | Session, every application on the bus | only the target is reset; success means a bootloader with a session; the window suffices |
| Studio logs | `apps/can-studio/src-tauri/src/logs.rs`, `src/lib/DataLogsView.svelte` | statics: busy flag, cancel flag; the ledger file; the view's queue and listing | scan, pull, mark, cancel | LOGFS pull, filesystem | a file shows as saved only if it is; nothing is written over; one operation at a time |
| Demo application | `demo/MAIN_IFS08_DEMO/Core/Src/main.c` | FDCAN state, filters and FIFO; backup register | boot sequence, receive loop, reset | the FDCAN driver, Boot entry | filters before traffic; serves a queued request |
| Studio bus monitor | `apps/can-studio/src-tauri/src/bus_monitor.rs` | session slot, capture task | start, stop | Session | at most one capture, stop stops it |
| Other CLI commands | `src/cli/*.rs` | cursors of `logs`, plan of `provision` | request, reply, print | Session | provisioning writes what it verified |
| Pit diagnostics | `src/pit_diag/*.rs` | decoders, ECU observers | feed a frame | bus monitor | observers follow the ECU's state |
| DFU recovery | `src/dfu/*.rs` | DfuSe state | erase, download, manifest | USB | the order of states of DfuSe |
| SWD flashing | `src/swd/mod.rs` | probe session | flash, reset | probe-rs | delegates |
| Firmware loader, codecs, log decode, DBC | `src/firmware`, `src/protocol`, `src/log_decode.rs` | none | parse, encode | all | pure functions |
| VS Code extension, web UI | `editor/`, `apps/can-studio/src` | UI state | | CLI, Studio | not part of the models |
| Vendored STM32 drivers | `demo/MAIN_IFS08_DEMO/Drivers` | registers | HAL, LL, CMSIS | demo application | third-party; only the FDCAN functions the demo calls are modelled |

Where the difficulty lies:

- **Concurrency.** Callers of `&Session`, the keepalive task and the RX daemon
  are tokio tasks; only `command_lock` and the single-slot receiver keep them
  apart.  `disconnect` and `send_session_gated` wait for the keepalive task
  while they hold the lock that task may be queued for.
- **An untagged wire.** A reply echoes an opcode and nothing else.  A reply that
  arrives after its command timed out is taken for the answer to the next
  command of the same opcode, unless the drain before each transmission has
  already removed it.
- **Cancellation.** Ctrl-C drops a future at whichever `.await` it stands.
- **Retries** of operations that are not idempotent on the device (a flash word
  can be programmed once per erase).
- **A device that outlives the run**: an interrupted flash, a dropped session,
  a handle that was never closed.
- **Other processes and threads**: a helper that hangs or dies in the middle of a
  message while every buffer between it and the receiver is full; two views of
  the Studio that ask for the same adapter; files and cards that change under a
  listing.
- **A shared bus**: every application hears every trigger, and every filter lets
  some of the others' traffic through.

## 2. Modules

| Module | What it is | Composition |
|---|---|---|
| `Session` | callers, lock, keepalive, RX daemon, bootloader latch, faulty bus | the base of all |
| `MCSession` | TLC instance, symmetry of callers | extends `Session` |
| `SessionProofs` | types, the lock, atomic reconnect, pairing of replies, agreement with the device, a quiet end | extends `Session` |
| `IsoTp`, `MCIsoTp` | segmenter, reassembler, faulty bus | what `Session` abstracts a message from |
| `IsoTpProofs` | types and limits, delivery | extends `IsoTp` |
| `FlashManager`, `MCFlashManager` | the flash engine and the device's flash | sees the link as `Session` gives it to one caller |
| `FlashProofs` | types, the plan, success, verify, FLASH_HW | extends `FlashManager` |
| `LogfsPull`, `MCLogfsPull` | pulling a file and the log service | same link |
| `LogfsProofs` | types, the verdict, the bytes, budgets, the handle | extends `LogfsPull` |
| `FrameStream` | abstract specification: what a receiver of frames is promised by a source in another process | implemented by `Isolation` |
| `Isolation`, `MCIsolation` | the bridge to the helper process, both ends | instantiates `FrameStream` |
| `IsolationProofs` | types, what a clean exit transmits, the refinement of `FrameStream` | extends `Isolation` |
| `BootEntry`, `MCBootEntry` | getting a running board into its bootloader, in milliseconds | a call of `Session`, with the boards of a bus |
| `BootProofs` | types, who is reset, what success means, the window | extends `BootEntry` |
| `DemoApp`, `MCDemoApp` | the demo application over its FDCAN driver | the other end of `BootEntry` |
| `DemoProofs` | its types, filters, boot sequence | extends `DemoApp` |
| `StudioLogs`, `MCStudioLogs` | scan, pull, ledger and disk in the Studio | `LogfsPull` is one step of it |
| `StudioProofs` | types, the adapter, the cancel flag, the folder, the ledger, the listing | extends `StudioLogs` |

### Session

One step of a task is what it does between two `.await` points.  `Start` queues
on `command_lock`, which tokio hands to the longest waiter (`Acquire`,
`Release`).  A command then goes through `Drain` (take the receiver, empty it),
`Transmit`, and one of `Take…` (the reply at the head of the channel),
`CommandTimeout`, `RxClosed`.  `send_command_retrying` adds `Backoff`;
`send_session_gated` adds the phases *first*, *reconnect* and *retry* under one
acquisition of the lock; `disconnect` is `DisconnectSend`, `DisconnectStop`,
`JoinKeepalive`.  `Cancel` drops the future of a command at any `.await`.
`DropSession` is `Drop for Session`: it signals and aborts the two tasks and
awaits neither, so each goes on until it is seen to (`RxAborted`,
`KeepaliveAborted`), possibly several steps later.  The keepalive is a `biased` select between
cancel and its timer; its tick (`KeepaliveSend`, `KeepaliveReply`,
`KeepaliveFails`) is not cancellable, as in the code.  `RxDeliver` is blocked by
a full reply channel, as `reply_tx.send().await` is.

Every request carries a serial number (`id`) that the wire does not have.  The
actions never read it to decide anything; it lets a property say which request a
reply answers.  `abandoned` (serials nobody waits for) and `clean` (the bus was
empty when the caller drained) are history of the same kind.

The bootloader keeps its session latch (`devSession`), serves requests in order
and may lose or refuse them, or drop its session (`DeviceExpires`).  An empty
channel may time out at any moment: the relative speed of the bus and of the
500 ms timeout is not modelled, so every reply may be late.

### IsoTp

Segmenter and reassembler with the protocol's sizes as constants, so that short
messages meet the wrap of the sequence number, the boundary of single and first
frame and the maximum length.  The *j*-th byte of message *m* is `<<m, j>>`:
pieces of two messages can never be confused.  The bus keeps order, so a frame
that is not lost is fed in the step that emits it; it may be lost or cut short,
the last frame may come once more (`Repeat`: a controller that missed the
acknowledgement sends again), and stray frames come between.  `ticked`, chosen once, says whether somebody calls
`Reassembler::tick`; in the RX daemon of the session nobody does.

### FlashManager

The stages of `FlashManager::run` (`plan`, `exec`, `erase`, `write`, `verify`,
`commit`) over `send_command_retrying`, with `Interrupt` for Ctrl-C, `Disconnect`
for the way out of the CLI, and `Rerun` for the next invocation, which finds the
flash as it was left.  The device has sectors of chunks; programming a chunk that
is not erased is refused with FLASH_HW, and the cells may take a wrong value
unnoticed (`Bad`).  A CRC stands for the contents it is computed from, so there
are no collisions; a READ_CRC reply carries no sector number, as on the wire.

The variable `late`, chosen once, says whether a reply may outlive its command.
Both modes of the link are needed: some promises hold only in one of them, and
which ones is the point of the properties.

### LogfsPull

`pull_file`: OPEN, READ until a short read, size and CRC checks, CLOSE; a
BAD_SESSION on READ reconnects, opens the file again and continues at the same
offset, while the budget `stalled` lasts.  The file's *i*-th byte is the number
*i*.  The peer is the log service of `stub_device.rs`: one open handle, handles
that wrap past 0, a session that can drop at any moment and takes its handle
along.  `drops` counts what the pull has met since it last advanced, for
`AdvancingPullSurvives`; no action reads it.

### Isolation and FrameStream

The parent's life (`spawn` and its handshake, `send`, `recv`, the steps of
`Drop`: flag, stdin, grace, kill, join), the reader thread (`ReaderRead`,
`ReaderPush`, `ReaderGiveUp` for its retry on a full queue, `ReaderEof`) and
`run_host` with its RX task and TX loop are steps over two bounded pipes and a
bounded queue.  The helper may hang in its driver at any step (it is owed no
fairness), crash (`Crash`, in the middle of a message too: `Cut`), refuse to
open, or lose its adapter (`Unplug`).  `FrameStream` is the promise to the
receiver: frames arrive in the order written, none lost or doubled, then
`Disconnected` once and for all.  The refinement maps its `sent` to the messages
the helper wrote in full, `got` to what `recv` returned, `alive` to the helper,
`ended` to the first `Disconnected`.

### BootEntry

Time is in milliseconds and moves with the host's sleeps and timeouts, with the
intervals of the code.  A board is an application, booting until `readyAt`, or a
bootloader; a trigger that reaches a booting board starts its boot over, as the
comment of `reboot_and_connect` fears.  `late` counts replies that are still
under way when their attempt has timed out.

### DemoApp

The main thread is at one call of its boot sequence or of its loop (`pc`); the
peripheral filters and queues frames beside it from `HAL_FDCAN_Start` on.  A
driver call has the state checks of the HAL function.  The message RAM is one for
three peripherals, all configured with offset 0, so `HAL_FDCAN_Init` of any of
them clears the filter elements.  A frame has the bytes its DLC says, and
`GetRxMessage` copies no more than these into a buffer that keeps the rest, which
the handler, believing the length in the PCI, may read.  Any frame the mask lets
through may come, shorter than its PCI says or empty.

### StudioLogs

A view asks for one command at a time (`cmd`), but a view that was left keeps its
download queue running, so two may compete for `LOGS_BUSY`.  A scan lists the
card, spot-checks CRCs against the ledger and classifies; a pull lists again,
opens, reads (one step: `LogfsPull` is its detail), finds a free name, renames,
records.  Cards are swapped, copies deleted, and the process ends, between any
two steps.  A card stands for its contents, so a CRC is the name of a card.

## 3. Runs

Passing runs:

| Run | Question | Bounds | States |
|---|---|---|---|
| `Session_safety` | safety of the session | 2 callers, 3 operations, 1 tick, 1 fault, 2 attempts, channel of 2 | 3.4 M |
| `Session_returns` | every connect, send and retrying send returns, and a dropped session releases the adapter | 2 callers, 2 operations, 1 tick, 1 fault | 0.1 M |
| `Flash_runs` | a run over any earlier contents, and a second run after it | 2 sectors × 2 chunks, the image ends inside sector 2, 2 attempts, 2 faults | 1.7 M |
| `IsoTp_faults` | messages of 0 to 9 bytes over a bus that loses, cuts and repeats frames, ticked or not | limit 8 bytes, 3 messages, 2 faults | 2.3 M |
| `Logfs_pull` | pulls of 0, 3 and 4 bytes in chunks of 2 | 2 attempts, budget 1, 2 faults, handles 1 to 4 | 1.2 M |
| `Isolation_bridge` | the bridge is a `FrameStream`, its `Drop` returns, an abandoned helper ends, death is noticed | 6 frames up, 3 down, queue and pipes of 2 | 54 k |
| `Boot_entry` | every policy and target, boards in any mode | 4 boards, boots of 0.1 and 2 s, 2 faults, the real intervals | 15 k |
| `Demo_app` | from power-up through resets, any traffic | FIFO of 3, 12 kinds of frame | 40 k |
| `Studio_logs` | scans, pulls, marks and cancels of two views | 2 cards, 2 files, 2 copies, 3 events | 1.7 M |

Violation runs, each the trace of a finding:

| Run | Property | What happens |
|---|---|---|
| `Session_deadlock` | `OpsReturn` | `disconnect` waits for a keepalive tick that is queued for the lock `disconnect` holds |
| `Session_keepalive_restart` | `ConnectStartsKeepalive` | after a failed tick the slot is still `Some`, and `connect` starts nothing |
| `Logs_two_cards` | `NoFalseDownload` | the copy of one card's file hides the other card's file of the same name and size |

Observations, disagreements between the code and what it says of itself that the
models show or that reading them showed, and that have no run of their own:

- `is_connected` stays true after the RX daemon has seen the backend go
  (`src/session/mod.rs:363`, against its doc at 360).
- A WRITE whose ACK was lost is refused with FLASH_HW when it is sent again
  (`src/flash/mod.rs:527`), although `src/session/mod.rs:748` calls it
  idempotent.  `FlashHwOnlyAfterResend` says it is the only source of FLASH_HW.
- The late CRC of one sector passes for the next sector's (`Flash_runs` checks
  the plan's consequences in both modes of the link, `VerifyMeansWritten` only
  without late replies), and the late answer to a READ is stored as the next
  window, which only the CRC of a verified pull notices.
- The RX daemon never calls `Reassembler::tick`, so a reassembly does not time
  out (`DeliveredAreSent` and `CleanMessageDelivered` hold all the same).
- A spawn of the helper that cannot create the reader thread drops the `Child`
  without a kill or a wait (`src/transport/isolation.rs:230`): the helper ends
  only if its driver returns and it finds its pipes gone (`AbandonedHelperEnds`),
  and nobody reaps it.
- A helper that does not end within the 250 ms grace of `Drop` is killed, and may
  take commands with it that `send` had accepted (`CleanExitTransmits` is about one
  that ends on its own).
- A pull that fails in its transport, in its reconnect or as stuck returns
  without a CLOSE (`src/logfs_client.rs:225`, 238); `HandleClosed` is about the
  other exits.
- When the adapter is unplugged only the RX task of the helper ends
  (`src/transport/isolation.rs:536`); its TX loop waits for stdin, so the process
  stays and the receiver sees timeouts until something is sent.  The doc of
  `run_host` says it runs until stdin closes or the backend disconnects.
- A cancel that arrives after the last read of one file is forgotten when the
  queue's next pull clears the flag.  A spot check that cannot run leaves a
  swapped card's files shown as downloaded; `NoFalseDownload` and
  `FreshCardAllNew` speak of listings whose checks ran.
- The demo's handler takes the length from the PCI byte and never looks at the
  DLC, over a receive buffer (`main.c:214`) that nothing clears and in which
  `HAL_FDCAN_GetRxMessage` leaves the bytes a shorter frame does not have.  After
  `01 06 01`, which is refused, a frame of the single byte `02`, of another device
  even, resets the board into its bootloader, where the comment (`main.c:959`)
  asks for a payload of "at least 2 — one byte for msg_type, one for opcode".
- The demo's acceptance mask keeps bits 4:0 only, so traffic of other devices on
  identifiers such as 0x021 is queued, where its comment
  (`main.c:168`) promises none.  Its APP_CTRL opcode for the bootloader, 0x01,
  is the opcode `app_connect` uses for CONNECT, and it does not listen to the
  reboot trigger on 0x002.

Two more concern a comment only:
`FlashReport` promises disjoint lists, but a sector that is written is pushed on
`sectors_erased` (`src/flash/mod.rs:335`) and on `sectors_written` (349); and
`feed` promises to be reset after every error, but a consecutive frame that is
too short returns `BadPci` and leaves it in `WaitCf` (`src/protocol/isotp.rs:469`).

**What the bounds are enough for.** Two callers and the keepalive make three
contenders for a FIFO lock: one inside, one queued, one arriving.  Three
operations allow connect, gated command and disconnect in one behaviour, or two
commands around a cancelled one.  One fault suffices for a late, lost or refused
message to meet a retry; time-outs are free, so late replies need no fault.  Two
attempts show the first, the last, and an attempt too many.  Two sectors show a
plan that skips one and writes the other; two chunks show a resent chunk that is
not the last.  Two faults allow a mis-programmed chunk, or an interrupt, *and* a
lost reply.  Late replies are explored within one run of the tool and without
keepalive ticks (`Runs`, `Ticks`), because a re-run begins with an ACKed CONNECT
on an empty link.  Files of 3 and 4 bytes end inside a chunk and on its boundary.
Channel capacity 2 (the code has 32) is reached by two late replies.
Six frames are more than the queue, the reader and the pipe of `Isolation` hold
together, so every writer blocks.  Two lost frames and a boot of 2 s are the worst
the window of 8 s with triggers every 2.5 s is meant for.  A FIFO of 3 is full
with a request at its head, in its middle or at its end; the code's is 16 deep.
In `Studio_logs` file 1 has one size on both cards and file 2 has not, and three
events allow a download, a swap and a crash, deletion or failure after it.

**What the passing runs teach.**
- With replies in time, the diff plan is right, a pull neither repeats nor skips
  a byte, and verify-per-sector can be trusted.  With late replies none of this
  holds, and what protects the user is the end-to-end check: FLASH_VERIFY over
  the whole image (`SuccessMeansInstalled`) and the CRC of the file
  (`VerifiedIsFile`), which hold in both modes.
- FLASH_HW reaches the host only after a WRITE was resent
  (`FlashHwOnlyAfterResend`): it is never a sign of a wrong plan.  The re-run
  after it succeeds (`RerunRecovers`).
- The drain does restore the pairing when nothing is in flight while it runs
  (`DrainResynchronises`); it can do nothing about replies still on the bus.
- One fault on a bus that keeps order cannot forge or reorder a message, nor
  deliver one of several frames twice.  Against a consecutive frame that comes
  twice this takes the sequence check; it does not take the tick.  A single frame
  that comes twice is delivered twice: nothing tells it from a second message.
- A crash of the helper loses nothing it wrote in full, and a helper that hangs
  holds nobody up: the kill in `Drop` is what unblocks the reader.  A helper that
  nobody kills, after a failed spawn, ends because its RX task gives up on the
  first write that is refused.
- `Drop` of a session cannot await its tasks, and need not: abort and cancel end a
  tick wherever it stands.  What `disconnect` promises is more, that nothing runs
  any longer when it returns (`QuietAfterClose`), and this hangs on the join.
- A late ACK of an earlier CONNECT is harmless to the reboot poll: whoever answered
  it has a session.
- `unique_path` looks for a free name long before the rename; that nothing is
  overwritten hangs on the busy flag alone (`NoClobber` falls with it).
- All that keeps the demo's filters is the order of its boot sequence: FDCAN3
  must not be initialised after them (`FiltersBeforeTraffic`).

**Fairness.** `Session`: weak fairness of each caller's steps, of the keepalive's
and of `RxDeliver`, since the runtime schedules every ready task and every sleep
and timeout elapses, and of the end of each task that was aborted; none of the
device, of the bus or of operations being
started.  `FlashManager`: weak fairness of the engine, of the tool, and of the
device serving what reaches it; faults are never fair, and `RerunRecovers` speaks
of the runs that begin when they have stopped.  `LogfsPull`: weak fairness of the
pulling task only; nothing of the node.  `Isolation`: weak fairness of the reader
thread, of a receiver that keeps calling `recv`, of `spawn` and of `Drop`, which
the operating system schedules; none of the helper, but for `AbandonedHelperEnds`,
which says that it ends if it is scheduled and its driver returns.  `DemoApp`: the processor
runs; nothing of the bus or of the power supply.

**Deadlock** is checked in every passing run but those of `Session`.  There, the
wait of `disconnect` and of gated commands for the keepalive can be mutual, which
is the finding of `Session_deadlock`, and `Session_returns` asks for more than the
absence of deadlock.

## 4. Proofs

Every safety property and every action property of a passing run is proved, and
so is the refinement of `FrameStream`; each proof module extends the component's
module.  The theorems hold for every value of the constants that satisfies the
named assumptions of the component: any number of callers, boards, views, cards
or faults, any image, file, message or queue length.  The assumptions are bounds
that are naturals and facts about the code's constants; three say more:

- `PayloadAssumption` (`BootEntry`): an application matches only its own trigger
  payload (`app_control.rs:35`).
- `WindowAssumption` (`BootEntry`): the window is long enough.  It holds, for each
  of `MaxFaults` faults, the *c* rounds of the poll until the trigger is sent
  again, and the *b* rounds of the longest reset, which is over before the
  trigger is repeated.  The code's constants satisfy it for two faults (the run
  evaluates it); what the theorem adds is that nothing else is needed, such as
  the order of the boards or the phase of the two intervals.
- `IsoTpAssumption`: a first frame holds no more than a single frame, the
  sequence number counts to two at least.

Each component has a type invariant, which is inductive or a part of what is,
one lemma per action that says what the action does in terms of types (`…Moves`,
`…Ways`, `…Fed`), and one step per action in every preservation proof.

| Theorem | States | Inductive invariant and argument |
|---|---|---|
| **`SessionProofs`** | | |
| `TypeCorrect` | `TypeOK` | with `BackoffBelowBound`: only an attempt that is not the last backs off |
| `SingleInFlight` | `OneCommandInFlight` | inductive with the types: the holder alone leaves `ready` or `lock`, and only its own step releases |
| `AtomicReconnect` | `ReconnectIsAtomic` | `ReconnectHoldsLock`: a gated command past its first phase holds the lock until it is idle; only a holder can send |
| `DrainPairsReplies` | `DrainResynchronises` | `BusIsOwn`: while a caller that drained a quiet bus waits, all that is in flight or queued carries its serial |
| `LockIsNotLost` | `NoLeakedLock` | `LockInv`: the holder and the queue, each once, are the tasks that want the lock, also while the tasks of a dropped session are aborted (`DropIsLast`); and `KeepaliveJoined`, without which a second keepalive could start beside one still queued |
| `RepliesAreOwnOrAbandoned` | `OwnOrAbandoned` | `OrderInv` (serials increase from the channel over the bus to the requests: no request is answered twice) and `PendingInv` (what is in flight is awaited or abandoned) |
| `ConnectedIsTrue` | `SessionAgreement` | `AgreeInv`: until `disconnect` has sent its last message neither the flag nor an ACK in flight says more than the device's latch |
| `ReconnectGivesSession` | `ReconnectRestoresSession` | `RetryInv` on top of `AgreeInv` and the lock |
| `ClosedIsQuiet` | `QuietAfterClose` | `QuietInv`: `disconnect(self)` is alone, and a keepalive whose slot was taken is awaited first |
| **`IsoTpProofs`** | | |
| `IsoTpTypeCorrect` | `TypeOK` | the segmenter's cursor is inside the last message, a frame is no longer than its kind allows |
| `CleanIsDelivered` | `CleanMessageDelivered` | `CleanInv`: an intact message is at its start, in step (`InSync`: same length, sequence number and prefix), or the last one delivered |
| `DeliveriesAreSent` | `DeliveredAreSent` | `OneFaultInv`: with one fault a reassembly is in step or waits for a sequence number that comes no more before the next SF or FF; a message still being segmented was not delivered yet (`Emitted`) |
| **`FlashProofs`** | | |
| `FlashTypeCorrect` | `TypeOK` | no loop of the engine runs past the image |
| `OnlyPlannedChange` | `OnlyPlannedSectorsChange` | `PlanInv`: what is in flight to change flash was planned, also what a retry left behind |
| `SuccessIsInstalled` | `SuccessMeansInstalled` | `SealInv`: no ERASE or WRITE follows a VERIFY on the link, so an ACK of it, late or not, speaks of the final flash |
| `VerifyIsWritten` | `VerifyMeansWritten` | `LinkInv`: without late replies at most one message is in flight, about the sector at hand |
| `FlashHwNeedsResend` | `FlashHwOnlyAfterResend` | `WriteInv`: before the first resend a WRITE is the last message in flight and finds its chunk erased, whatever late replies are around it |
| **`LogfsProofs`** | | |
| `LogfsTypeCorrect` | `TypeOK` | |
| `VerifiedFileIsFile` | `VerifiedIsFile` | `VerdictInv`: the last check settles the result and the bytes do not change after it |
| `PulledDataIsPrefix` | `DataIsPrefix` | `LinkInv`: without late replies an answer in flight is to the request at the current offset |
| `OnlyStuckGivesUp` | `AdvancingPullSurvives` | `CountInv`: every reconnect on the budget was forced by a drop of its own |
| `EndedPullClosesHandle` | `HandleClosed` | `HandleInv`: from its OPEN on the pull knows the open handle, and every CLOSE that failed has cost a fault |
| **`IsolationProofs`** | | |
| `IsolationTypeCorrect` | `TypeOK` | part of `IInv` |
| `ClosingTransmitsAll` | `CleanExitTransmits` | `TxInv`: handed over and in the pipe are together what `send` accepted |
| `BridgeIsFrameStream` | `IsFrameStream` | `Numbered`, `PipeInv`, `EndInv`: received, queued, in the reader's hand and in the pipe are, in this order, what was written; the reader ends by itself only behind the last of it.  Every step is one of `FrameStream` or a stutter |
| **`BootProofs`** | | |
| `BootTypeCorrect` | `TypeOK` | part of `SafeInv` |
| `TargetAloneReboots` | `OnlyTargetReboots` | `PollInv` and `PayloadAssumption` |
| `OkIsConnected` | `OkMeansConnected` | `SessionInv`: a session is latched by a bootloader only, and a late ACK was sent by one |
| `WindowIsEnough` | `WindowSuffices` | `Timely`: the target has heard no trigger and each sent so far cost a fault, or it heard one and the rounds since are accounted for by the reset and by faults |
| **`StudioProofs`** | | |
| `StudioTypeCorrect` | `TypeOK` | the fields of a command are those of its step; a view that pulls shows a listing |
| `AdapterIsHeldOnce` | `AdapterHeldOnce` | `AdapterInv`: every step keeps the adapter, takes it when it is free, or gives it back (`Kept`, `Took`, `Gave`) |
| `CancelIsHeld` | `CancelHolds` | from `AdapterInv`: whoever would clear the flag is refused while somebody reads |
| `NothingIsOverwritten` | `NoClobber` | `PathInv`: the name `unique_path` found is free until the rename, since no other holder can rename |
| `RecordsAreOfFiles` | `RecordsFollowFiles` | `RecordInv`: what is about to be recorded has landed |
| `FreshCardIsAllNew` | `FreshCardAllNew` | `CheckInv`: as long as the checks were of the card listed, the first one finds it changed; and of files on record at least one is picked (`PicksOfSome`) |
| **`DemoProofs`** | | |
| `DemoTypeCorrect` | `TypeOK` | part of `IInv` |
| `FiltersFirst` | `FiltersBeforeTraffic` | `Booted`: each place in the boot sequence has its driver state and filters |
| `HaltsOnFaultOnly` | `HaltOnlyOnFault` | `Booted`: every call finds the driver in a state that allows it |

The type invariants other than those of `Session` and `IsoTp`, and
`HaltOnlyOnFault`, are proved and not in a run.

What the proofs add to the runs, beside size:

- `FlashHwOnlyAfterResend` and `SuccessMeansInstalled` need no assumption on late
  replies; `VerifyMeansWritten`, `DataIsPrefix`, `AdvancingPullSurvives` and
  `HandleClosed` are promises of a link without them, and their invariants begin
  with `~late`.
- Three properties of the Studio hang on one fact, that the adapter is held once:
  `CancelHolds`, `NoClobber` and the freedom of the name in between.
- The first of the picks is enough to recognise a fresh card; how many more there
  are, and which, does not matter.
- One fault cannot forge or reorder a message for any modulus of the sequence
  number from two on, and the timeout plays no part in it.
- The runs have `Drop` and the other invariants of the session apart, for the size
  of the state space; the theorems have them together.

Only model-checked: the liveness properties (`OpsReturn`, `DropReleases`,
`RerunRecovers`, `PullEnds`, `DropReturns`, `AbandonedHelperEnds`, `DeathSurfaces`,
`RequestServed`), for fairness and
ENABLED are outside what the prover can do, and of course the properties that the
violation runs refute.

## 5. What is not modelled

- Time, except as the order of events: a timeout may strike whenever its channel
  is empty.  `IsoTp` and `BootEntry` have clocks.
- The notification channel of the session (a bounded broadcast that may lag by
  design), logging, progress events and formatting.
- `broadcast` and `send_command_to` (Discover); of `app_connect` only what the
  pull's reconnect sees.
- Write protection, option bytes, NVM, DTCs, jump and exit codes.
- The Studio's bus monitor; torn ledger lines and folders that go away.
- SLCAN, vendor FFI, USB and probe transfers, user interfaces.
- Pure decoders and parsers.
- The vendored STM32 HAL, LL and CMSIS files under `demo/`, which are most of the
  repository's C lines and third-party code: of these only the FDCAN functions
  the demo application calls are in `DemoApp`.  Remote frames are not offered to
  it, and the peripherals it never uses are one initialisation step each.

## 6. Plan

What is left to prove is structure between the modules rather than properties of
one:

1. The link that `FlashManager` and `LogfsPull` assume, one caller whose replies
   come in time or late, as an abstraction of `Session` without cancellation.
2. A bound on the steps that `PullEnds` and `DropReturns` speak of, as a
   decreasing measure that is an action property: the part of a liveness argument
   that needs no fairness.

Where two questions need different environments the environment is a variable
chosen in `Init` (`late`, `ticked`), so that one passing run per component
answers both.
