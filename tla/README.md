# A verification development of frida-ci

frida-ci is two programs kept in one repository. `master.cfg` configures the
Buildbot master that runs some fifteen builders of Frida. `images/` holds what
the workers are built from, and in `images/qnx/sabrelite/bsp/src` the C sources
of a QNX 6.5 board support package for the i.MX6Q Sabrelite (below: *the BSP*, and
its paths are relative to that directory): a DMA library used by several
processes at once, and drivers whose interrupt handlers run on one of four
processors while threads run on the others.

This directory models the parts of both that keep state under concurrency, checks
them with TLC and proves part of what is checked with TLAPS.

## 1. Inventory

| Component | State | Operations | What is hard | Module |
|---|---|---|---|---|
| Build master, `master.cfg` | requests, builds, published bundles | commit, force, start, roll, wait, make, release | waits that cross between builders, failures and timeouts, skipped revisions | `FridaCi`, `FridaRecipes` |
| SDMA command channel, `lib/dma/sdma/cmd.c`, `irq.c` | one descriptor and one mutex in shared memory, a pulse channel and an event table per process | `sdmacmd_ctx_load`, `irq_handler` | several processes, a timeout racing a late answer | `SdmaCmd`, `CtxLoad` |
| SDMA life cycle, `api.c`, `init.c`, `sync.c` | shared memory, `process_cnt`, `n_users_in_process`, the descriptor's owner | constructor, `sdma_init`, `sdma_fini` | nested mutexes, failure labels, first and last process | `SdmaInit` |
| SDMA channels, `api.c`, `irq.c` | EVTOVR, HOSTOVR, CHNENBL, HSTART, the handler's tables | attach, start, abort/complete, release, ISR callback | read-modify-write of shared registers, channels that pass between processes | `SdmaChan` |
| SDMA descriptor rings, `api.c` | descriptors, `n_frags`, DONE bits | `sdma_setup_xfer`, `sdma_bytes_left`, the re-enabling callback | engine and callback in one ring | planned: `SdmaRing` |
| CAN mailboxes, `hardware/can/mx6x/canmx6x.c` | IFLAG1/2, mailboxes, message lists, TX_ENABLED | `can_intr`, `can_drvr_transmit` | flags cleared in bulk, two reads of one register, no lock | `Can` |
| CAN masks, freeze mode, minidriver | mask registers, MCR | `can_drvr_devctl`, `mdriver.c` | unlocked read-modify-write, hand-over at boot | planned: `CanMask` |
| Serial driver, `hardware/devc/sermx1` | control register, DMA buffers, tty queues, timers | `tto`, `tx_interrupt`, the transmit and the receive pulse threads | transfers that overlap, a timer that ends the use of DMA, a register that thread and handler write back | `Serial` |
| SPI master, `hardware/spi/master` | open files, default devices, device locks | open, close, lock, unlock, exchange, read, write | a lock left by a client that goes, the device a message does not name | `Spi`, `SpiBus` |
| SPI controller, `hardware/spi/mx51ecspi` | one transfer in bursts, two FIFOs, a masked interrupt | `mx51_xfer`, `spi_intr`, timeout | lengths that fit neither word nor burst, FIFOs that are refilled and emptied at once, late pulses | `Spi`, `SpiBus` |
| I2C controller, `hardware/i2c/imx` | one transfer, a masked interrupt | wait, timeout, reset | spurious and late interrupts | planned: `I2cWait` |
| Ethernet transmitter, `hardware/devnp/mx6x` | ring, indices and count, IFF_OACTIVE, IMASK | `mx6q_start`, reap, interrupt, monitor, stop | ring limits, lost kicks, freed buffers | `EnetTx` |
| Ethernet receiver, the same | ring, `rx_queue`, `rx_full`, IMASK | receive thread, `mx6q_process_queue`, enable | fragments, flow control, a mask that three parties hand on | `EnetRx` |
| SD/MMC block driver | request queue | submit, interrupt, timeout | retries, a card that is pulled | planned last |
| Audio, touch screen, watchdog, RTC, IPL, start-up, flash | registers | set-up sequences | single-threaded, or clients of the above | not modelled |
| Worker images | none | container recipes, vendored scripts | none | not modelled |

How they interact. Channel attach and abort load a context through the command
channel, whose descriptor `sdma_init` of the first process allocates and all
others map; audio and serial drivers are clients of the channels. The CAN driver
shares its message lists with libcan. The serial driver is two channels of the SDMA
library, io-char's thread and an interrupt handler. The stack calls the
Ethernet driver with `if_snd_ex` held; the interrupt's work and the periodic monitor take
the same lock, and a receive thread of the driver meets the stack's at `rx_queue`. The
resource manager of the SPI master runs one message at a time and calls the controller's
transfer from it. The builders of the master interact through
the bundles alone: `releng/deps.py roll` publishes a toolchain or SDK for the
dependency version of a revision, `deps.py wait` polls until it is there.

What makes each component correct: a context load that returns 0 has loaded the
caller's context, and nobody else's completion ends it; the process count tells
the first and the last process on every path; a register shared by all channels
keeps what each channel's owner wrote; the handler of a process knows the channels
of that process and no others; a frame is delivered in order, a message is acknowledged
when it has been sent and a mailbox that is sending is not written; bytes leave and enter
the serial port in order, whether by DMA or not, and neither direction stops for good;
buffers of the Ethernet controller are freed when it is done with them, frames leave
and enter whole and in order, and neither direction stops for good; a locked SPI device is
used by its owner alone and an exchange is complete; a compile finds the bundles it is
built from, and no set of builders waits in a circle.

## 2. The modules

Every definition has its lines in `PROJECT.json` under `map`. Definitions whose
comment begins "Mutated form of" are plausible mistakes in the definition
after them, which the properties have to notice; no behaviour uses them.

### SdmaCmd, CtxLoad

A `Thread` is one call of `sdma_channel_attach` or `sdma_xfer_abort` and the
channel it loads. `pc[t]` follows the statements of `sdmacmd_ctx_load`: lock,
`sdmairq_event_add` (mask bit, then event), the command word with the DONE bit,
the buffer address, HSTART, the wait with its timeout, `sdmairq_event_remove`
(mask bit, then event), unlock. Each store another processor, another process or
the controller can see is a step of its own. `irq_handler` is two steps, claim
and return, because the mask it reads and the event it returns can change in
between. A pulse carries the thread whose command raised the interrupt: the code
sees only that a pulse came, the properties ask whose it was. The controller
(fetch, finish) is external: it takes the descriptor when DONE is set and hands
it back.

`CtxLoad` is the promise without the mechanism: a call is requested, the caller's
image is loaded once, the call returns. `AbsCall` in `SdmaCmd` is the refinement
mapping.

`sdmaram_script_load` uses the channel the same way, once, under `libinit_mutex`,
and is not modelled separately.

### SdmaInit

One action per stage of `sdma_init` and `sdma_fini` with the mutexes held there,
including the failure labels `fail1` to `fail5` (`PrepareFails`, `CommandFails`).
The constructor of `init.c` is three steps, because the shared memory exists
before its mutexes and its count are initialised. `SerialLoad` says whether a
second process may be loaded in that window: `sync.c:27` notes that the
`mx35_dma_cfg` utility creates the memory beforehand, which justifies TRUE, but
nothing in the code enforces it. On a mutex that is not initialised
`pthread_mutex_lock`, whose result nobody looks at, either locks or fails. A
constructor whose system calls fail is not modelled (section 6).

### SdmaChan

Attach, start, stop and release of one channel per thread, with the registers
EVTOVR, HOSTOVR and one CHNENBL (all channels wait for the same event) read and
written back in two steps, with or without `register_mutex` exactly as the code
does. `irq_handler` takes the lowest channel its mask and SDMA_INTR share, calls
the callback if it finds one, and returns. `Driven` are the threads that attach
with `eventnum`, `Regen` those with `regendescr`. Descriptors are not in this module.

What is given back to the resource manager is read from freed memory. A release takes
its channel out of the handler's tables (`api.c:543`, `546`) before the structure is freed
(547), and `rsrcdbmgr_detach` then reads the number from it (550); a context load that fails
does the same (506-511). `GiveBackFreed` therefore gives back any channel or none, one
in use too, which is then given out a second time. A structure that cannot be created
(`ChanCreateFails`) is a NULL pointer there, which ends the process: its threads are "dead",
the kernel takes its channels and its handler away, and the registers keep what they hold.

### Can

IFLAG1 and IFLAG2 are one set of mailboxes. Frames and messages are numbered per
mailbox; a frame nobody has read is overwritten. `can_intr` is one step per
register access: the two reads at the top (`IsrTop`, `IsrWhich`), the copy, the
clearing of *all* flags of a kind, the list, the acknowledgement, the next
message, the end of transmission, the notification that ends the handler, and the
clearing of all that was read at the top. `can_drvr_transmit` is the check, the
flag TX_ENABLED and the write to the mailbox. The error interrupts at the head of
the handler touch none of this state.

`can_ringo_tx`, which both call, polls until the bus is idle and has no limit
(`canmx6x.c:851`): `IsrTxNext` and `TransmitSend` are the end of that wait, and nothing makes
them happen. The wait for BUSY in the copy ends after 20 polls and is part of it.

Two constants are about hardware and options: `FullMsg` (is the timer, which unlocks the
mailbox, read with the frame?), and `KeepsNew`: a comment in the handler (`canmx6x.c:287-293`)
says that a write clears a flag only if "no new event of the same type occurs between the
read and write action". The run takes the comment's reading, the theorems hold for both.

The flags are read twice at the top of a pass. `IsrTop` fixes what will be cleared,
`IsrWhich` which mailbox is served; if a lower transmit mailbox has finished in between, its
flag stays, and its completion is served a second time. `agreed` is history: has every
transmit mailbox the handler served been in both reads?

### EnetTx

`q` is the ring as the driver keeps it: the descriptors with READY, LAST and the
controller's BDU, `tx_pkts`, `tx_pidx`, `tx_cidx`, `tx_descr_inuse`. `Start(p)` is
`mx6q_start` by the stack ("send") or by the interrupt's work ("intr"), which are rivals
for `if_snd_ex`: out of descriptors, queue empty, a frame loaded or dropped for want of
memory (`DropFrame`), its first descriptor made READY, the kick. `Reap` is
`mx6q_transmit_complete`. `Isr` masks the interrupt; `Intr...` is
`mx6q_process_interrupt`, which clears the event, starts again or kicks again, and at
last unmasks. `Monitor...` is the periodic `mx6q_MDI_MonitorPhy` with the accesses of
`mii.c`, which clear events by writing back what they have read, and the reaping of a
ring nobody has reaped; `Stop` and `Restart` are `mx6q_stop` and `mx6q_init`. The
controller (`Fetch`, `LookAhead`, `Transmit`) is external. Constants choose what the
source leaves to the hardware or the caller: `LosesKick` (a kick while the last frame
the controller knows of is leaving is ignored, which the comment at `event.c:257` is
about) and `StopsBusy` (the interface is stopped with frames in the ring). The
controller hands back the descriptors of a frame one by one, in as many steps as it
likes (`Transmit`), while `Reap` frees the whole chain of buffers with the first.
`mishap` is history: a lost kick, a cleared event, a ring that was short. Time stamps
are left out: while a frame waits for one, the interrupt's work reaps the ring without
`if_snd_ex` (`event.c:245-247`), and what is shown of this side is about frames without.
`IFF_RUNNING` is set by the first `mx6q_init` and nothing clears it in `if_flags_tx`, so
that the check of `transmit.c:302` never ends `mx6q_start`.

### EnetRx

The controller writes fragments (`Arrive`) and stops at a descriptor it does not own.
`Isr` masks the interrupt and sends the pulse; the receive thread takes the pulse, and
in `mx6q_receive` discards, takes a fragment, puts the frame in `rx_queue` under
`rx_mutex`, or finds the ring empty, restarts the controller and unmasks in a step
of its own (`EnableRx`). The work on the queue is `PassUp`, `QueueEmpty`, which leaves
the mutex locked, and `EnableQueue`. `MiiRead` and `MiiWrite` are the accesses of
`mii.c` to IEVENT. `flow` is chosen at the start: is flow control negotiated?
`MayFail` lets an allocation fail. Names that the transmit side has too begin with `Rx`,
because `EnetProofs` extends both modules.

### Serial

One port. `calls` are the calls of `tto` io-char has to make (TTO_DATA, EVENT_TTO).
With DMA `TtoFill` and `TtoStart` are two steps, between which the peer may stop the
output; the transmit thread clears `tx_xfer_active` and `tx_tmr` in two. A TTO_DATA
that finds an active transfer (`TtoBusy`) looks at the timer in another step: there is time
left (`TtoWait`), or the use of DMA ends (`TtoTimedOut`, with `dev_cleanup`). Without DMA
`tto` fills the FIFO and sets TRDYEN in CR1, which it reads and writes back (`TrdyRead`,
`Cr1Write`) as the interrupt handler does (`IsrRead`, `IsrWrite`); BRK and RTS are bits of
the same register. `RxPulse` starts the next transfer of input or, if there is no room,
leaves it to `RtsResume`. The processor has four cores: the handler, the two threads of top
priority and io-char's thread run side by side, and any of them may stand still between
two of its steps. With `UserRts` a client may assert RTS too, which the set-up of the
driver does not provide for (`init.c:78-79`). io-char, the SDMA channels and the UART are
external.

### Spi, SpiBus

The manager: open, close, default device, and messages, reads and writes with
the locks of `_spi_devlock.c`, whose list is a set here: of a client and a device it
has one entry, so that its order decides only which lock an unlock of "no device" takes,
and the model takes any. The driver: `mx51_xfer` loads a burst
(`Load`), starts it, waits for the pulse or times out, and goes on with the next.
`spi_intr` is three steps: it reads STATREG and clears TC (`IsrRead`), empties the receive
FIFO by that many words and refills the transmit FIFO (`IsrMove`), and ends the burst or
sets XCH (`IsrEnd`). The controller exchanges words between them: `left` is what it has yet to
exchange of its burst, and when that is 0, XCH starts another of the length last set. So the
handler may set XCH for a burst whose last word has just been exchanged (`intr.c:162-166`), and
the next burst then finds the controller started and its length not taken over. Whether an
exchange with an empty transmit FIFO waits or stops is left open (`Exchanges`). A transfer
writes CONTROLREG anew, without XCH (`mxecspi.c:650`), which is taken to end what was going
on (`Begin`). The counts `xlen`, `tlen`, `rlen`,
`bxlen`, `btlen`, `brlen`, `lsb` are the code's. A byte is `Out(i)` until `In(i)`, the
byte that came for it, replaces it. What the handler stores, word after word and the first
of them maybe short, is `Filled`. `NamesDevice` says that every message names its
device, `AfterLate` whether anything follows a transfer that timed out.

`SpiBus` is the promise to the clients: a message to a device nobody else has locked, which
may lock or unlock it, begins a transfer; its bytes are exchanged at once; it is answered.
`CurXfer`, `Wire` and `Got` in `Spi` are the refinement mapping: to a client the exchange
happens when the driver is done.

### FridaCi, FridaRecipes

`FridaRecipes` holds the factories of `master.cfg` as sequences of commands: roll,
wait, make, release, each with the bundles it names and whether its failure halts
the build. Consecutive commands that name no bundle are one. The two rolls of
`windows` are ShellCommands, which do not halt; the Raspberry Pi factories are
commented out in the source and here absent. `FridaCi` is the master: a commit
asks every builder, a newer request replaces an unclaimed one, a builder runs one
build at a time, any command may fail (`MayFail`), a wait may time out
(`MayGiveUp`). Buildbot and `deps.py` are external, modelled from their use.
`Behind` states which bundles are published before which (`BundleOrder`): this
order is why `wait sdk android-arm64` is enough for a build that needs four SDKs.
The assumptions `BehindAssumption` and `NeedsAssumption` say that the recipes keep
to it. `Staged` is another order: what a recipe awaits some recipe rolls, after awaiting
bundles of earlier stages only. `MCFridaAll` has TLC evaluate the two assumptions, and
`Staged` with the stages of `FridaRecipes` (`Stage`), for all the builders of `master.cfg`, not
only those of a run, and that no two of them roll the same bundle (`RolledByOne`).

## 3. The runs

Modules `MC...` give the constants their values where a `.cfg` cannot.

| Run | Instance | What it shows |
|---|---|---|
| `SdmaCmdTimely` | 3 threads, 2 processes, no timeout | truthful results, own notifications, no half-written descriptor; implements `CtxLoad` |
| `SdmaCmdLate` | a thread in each of 2 processes, timeouts | only the holder of the mutex listens; every call returns though the controller may be late or silent |
| `SdmaCmdStalePulse` | 3 threads, timeouts | violation: a stale pulse answers a later call |
| `SdmaInitSerial` | 3 threads, 2 processes, failures | the counts are right on every path; nobody resets the controller under another; one process at a time; every call returns |
| `SdmaChanShared` | 3 threads, 2 processes, 2 channels, one of the threads event driven with a callback, failing loads, a process that ends, channels given out twice | no write of HOSTOVR reaches another channel's bit; the handler's tables hold own channels only |
| `CanRxTx` | 1 receive and 2 transmit mailboxes, lists of 3, 4 frames, 2 messages for each mailbox, flags that outlive a write | order of frames, acknowledgements and no overwriting as long as the reads agree, only the wait for an idle bus keeps the handler |
| `EnetTx` | 5 descriptors, 3 frames of 1 or 2, one access of the monitor, kicks are lost | the count fits the ring; "this should NEVER happen" does not; only the frame that is being sent may have its buffers freed; frames leave in order; a transmitter that ran short or was not kicked goes on |
| `EnetRx` | 3 descriptors, a queue of 2, 4 frames of 1 or 2, damage, no buffers, with and without flow control | a frame is put together from fragments of one frame without a gap; order; the queue is worked on; one party in charge of the mask, which comes back |
| `Serial` | with and without DMA, 3 bytes in transfers of 2, 3 transfers of input with room for 1, timeout of 2 ticks, handlers and threads side by side | bytes and input in order, nothing is stuck |
| `Spi` | 2 clients, 2 devices, words of 1 and 2 bytes, FIFOs of 3, bursts of 10, lengths 1 and 11, a handler in three steps, timeouts | locks exclude, the receiver is not overrun, the handler reads what was received, an exchange is complete, nothing waits for ever; implements `SpiBus` |
| `FridaCiMac` | macos-modern, macos-legacy, macos-m1, ios, android; 1 revision | the crossing waits make no circle and await nothing in vain |
| `FridaCiFailures` | ubuntu_18_04-x86_64, ubuntu_18_04-arm64, windows; 2 revisions, failures, timeouts, a forced build | an unflunked build never lacks a bundle; every request is built |

Each module states a `TypeOK`. No run lists it; the proofs establish it for four
modules (section 5), and what it says of `Spi` is part of `LockInv` and `Numbers` there.

**Bounds.** The SDMA instances have two processes, one of them with two threads where
the lock inside a process matters: a thread's rivals are "a thread of the same process"
and "a thread of another", and the protocols never look at who a third one is.
`MaxPulses` caps the queue of a pulse channel (2 where stale pulses are the point; 1 in
`SdmaCmdLate`, where the handler simply waits for room); the kernel's queue has no such
bound, and two pulses show a stale one beside a new one. `SdmaChan` has fewer channels
than threads, so that a released channel passes to another thread and to the other
process. In `Can`, four frames fill the list of three and overflow it, one of them can
be listed twice before that, and two messages for each of two mailboxes are enough for
one to be served twice while the next is sent. In `EnetTx`, five descriptors are the
least for two fragments a frame (`RingAssumption`): the ring wraps, and three frames
make it short, stop the stack and start it again. In `EnetRx` four frames of up to two
fragments wrap the ring of three several times and fill the queue, at which flow control
stops the reception. `Serial` needs two transfers of output and three of input: one in
each half and one that finds no room; three bytes make a full transfer and a short one,
and a FIFO of one byte is full with each. In `Spi` the FIFO holds 3 words and a burst 10
bytes (5 words of 2), so that a transfer of 11 is two bursts, the first refilled by the
handler and one word longer than what it has loaded and refilled at once, the second a
short word; 1 is a single short word. `FridaCiMac` takes the five builders that share
bundles with a crossing wait, for one revision: what is awaited there is of the version
of that revision, and each builder builds once, so that `NoCircle` says that every
request is built. With a second revision of another version a builder may skip the
first, and whoever awaits its bundles gets on by its timeout only: `NoCircle` does not
hold then, the theorem assumes one version (`OneVersion`), and the skipped revision is
the subject of `FridaCiFailures`, where two revisions let one be skipped and its version
be awaited. `MaxForced` caps forced builds, which add nothing beyond a repeated request.
The bounds marked as such in the modules (`Frames`, `Polls`, `Bytes`, `Chunks`, `Ctrls`,
`MaxCount`) end the input, not the program: what has begun goes on to its end.

**Fairness.** `SdmaCmd`, `SdmaInit`: a thread inside the library keeps running (weak
fairness) and a mutex that is free again and again goes to each waiter in turn (strong
fairness on taking it: QNX queues waiters of equal priority). Nothing makes a thread
*call*. Only `SdmaCmdTimely` assumes that the controller answers and the interrupt is
served; `SdmaCmdLate` assumes nothing of it, the timeout of `cmd.c:357` is enough.
`SdmaChanShared` is a safety run without fairness. `Can`: a handler that has been
entered keeps running, but for the wait for an idle bus, in which nothing is assumed of
it; `WaitsForBusOnly` says that it is there or returns. `EnetTx`: threads inside
`mx6q_start` run, an unmasked interrupt is served, its work gets `if_snd_ex` in turn
(strong fairness of `Intr`), the controller sends what it was told to; nothing makes the
monitor poll, so that no property leans on it. `EnetRx`: the interrupt is served, and
the two threads get `rx_mutex` in turn (strong fairness of `Receive` and `Work`); frames
need not arrive. `Serial`: handlers run; `tto` is called when io-char owes a call, and
RTS is asserted when there is room again (strong fairness, since what the handlers do
may enable and disable either); the peer resumes, the client reads, the channel and the
UART move bytes; ticks need not come. `Spi`: the thread runs, interrupts are served, the
controller exchanges words; no fairness of the timeout and none of the clients.
`FridaCi`: Buildbot starts pending requests, and a command that can end does; nobody has
to commit or force.

**Deadlock** is checked in `SdmaCmdTimely`, `SdmaCmdLate` and `Spi`. In the others the
system may stop: the messages, frames, bytes or revisions of the bound are dealt
with (`CanRxTx`, `EnetTx`, `EnetRx`, `Serial`, `FridaCiMac`, `FridaCiFailures`), or all
threads are up and nobody makes another call (`SdmaInitSerial`, `SdmaChanShared`).
That work is not stuck there is what the liveness properties say.

## 4. What the code does not keep

One disagreement is a run and listed under `findings` in `PROJECT.json`.

- **`TruthfulReturn`** (`SdmaCmdStalePulse`). After a timeout nothing drains
  `cmd_chid`. The late pulse ends the next call of the process, which returns 0
  before its context is loaded.

The modules state more that the code, or the code under a wider assumption, does not
keep. No run lists them; adding the property to the named configuration, with the
change in brackets if there is one, shows each.

*SDMA library*
- `OwnNotifications` with timeouts (`SdmaCmdStalePulse.cfg`): a late completion is
  delivered to another process.
- `DescriptorLive` (`SdmaInitSerial.cfg`): the command descriptor is anonymous memory
  of the process that initialised the library first. When that process calls
  `sdma_fini`, the memory goes; the others, and the controller, keep its address.
- `InitExclusive` (`SdmaInitSerial.cfg` [`SerialLoad = FALSE`]): a process that is loaded
  before the mutexes are initialised undoes a lock.
- `SoftwareByDefault` (`SdmaChanShared.cfg` [two driven threads]): attach reads and writes
  EVTOVR without `register_mutex` and can write back a bit that a release has just set.
- `ReleasedIsQuiet`, `CallbackFindsChannel` (`SdmaChanShared.cfg`): a release clears the
  interrupt before it stops the channel; the handler may enter the callback of a
  channel that a thread is destroying.

*CAN* (`CanRxTx.cfg`)
- `NoFrameForgotten` [two receive mailboxes]: one pass of the handler's loop handles
  one mailbox and clears the flags of all.
- `AckedWereSent` without `agreed`; `TxNotOverwritten` without it [three messages for each
  mailbox, no frames]: what is cleared comes from one read of the flags and what is handled
  from the other. One completion is handled twice, and the second time acknowledges a message
  that is still being sent, and the one after it is written over it.
- A frame may be listed twice: `RxInOrder` allows for it (`Again`), since a flag that
  outlives the write that was to clear it has its mailbox copied a second time. With
  `KeepsNew = FALSE` it is listed once.
- `EnabledInProgress`, `EndedIsEmpty`: a completion cleared by a pass that handled a
  frame leaves TX_ENABLED set for good; a message written while the handler ends
  the transmission waits for the next write.

*Ethernet*
- *The controller reads no freed buffer* (`FreedIsUnderway` [with FALSE for its conclusion]):
  `tx_pkts` holds the mbuf at the frame's first descriptor, and a reaping frees the chain when
  that one has been handed back, though the controller may still own, and read, the later
  ones. `FreedIsUnderway` says that this frame is the only one it can happen to.
- `NeverHitsEnd` (`EnetTx.cfg` [`StopsBusy = TRUE`]): `mx6q_stop` takes READY from the first
  descriptor of a pending frame only. `FreedIsUnderway` and `SentInOrder` go the same way.
- `MisqueuedIsKicked` (`EnetTx.cfg`): the kick of `event.c:257` is repeated only while
  IFF_OACTIVE is clear. A transmitter that ran short has `mx6q_start` called instead,
  which kicks nothing if the stack has queued no more: the frame stays in the ring.
- `mii.c` sets a bit of IEVENT by reading and writing it back, which clears every
  event in it: the liveness properties of both modules exempt this (`mishap`).
- `WholeFrames` (`EnetRx.cfg`): "Half way through a packet, discard it all" discards the
  fragments so far; those that follow are put together and passed up.
- `FlowResumes` (`EnetRx.cfg`): a reception that flow control stopped is resumed by
  unmasking the interrupt, but what is in the ring by then was announced before and waits
  for the next frame.

*Serial* (`Serial.cfg`)
- `CtrlKept`: beside the handler's write of CR1, io-char's thread on another processor has
  its bit overwritten.
- *DMA is given up only for a transfer that had its time* does not hold and is not stated:
  the transmit thread clears `tx_xfer_active` and then `tx_tmr` (`intr.c:41-42`), and between
  the two a thread on another processor may start a transfer, whose timer is then cleared;
  or `tto` finds the flag of one transfer and, a moment later, the timer cleared
  (`tto.c:178`). Either ends the use of DMA with a transfer that is all right, and its bytes,
  which `OutputInOrder` excepts by `gave`, may be lost.
- `InputInOrder` [`UserRts = TRUE`]: RTS from a client passes a half up that is not full.
- `DrainMeansSent`: the check for drained output does not look at the transfer's buffer
  that was filled and held back.
- `InputGoesOn`: with DMA disabled nothing receives.

*SPI* (`Spi.cfg`)
- `LockExcludes` [`NamesDevice = FALSE`]: of a message that names no device
  (`_spi_iomsg_xchange.c:71-72`) the lock is looked up for "no device", the transfer made with
  the client's default.
- `XferReturns` without its last alternative: the handler that sets XCH for a burst whose
  last word has just been exchanged (`intr.c:165`) leaves the controller started, and the next
  burst begins with the length of the one before. If it is shorter, the controller waits
  for words that do not come, TC is not set, and the thread waits for the timeout.
- `WritesInside`: after a timeout `rlen` is -1 and the interrupt is still enabled.
- `Exchanged` without `~late` [`AfterLate = TRUE`]: a late pulse, or words left in the
  transmit FIFO, belong to the next transfer.

## 5. The proofs

`tlapm` checks eight modules, with no assumption but the named ones on constants and
those a theorem states. The theorems hold for any number of processes, threads,
channels, mailboxes, descriptors, frames, clients, devices and bytes.

**SdmaCmdProofs.** `TypeCorrect`: TypeOK is inductive as it stands. `HolderListens`:
OnlyHolderListens is not, so `LockInv` adds that `command_mutex` is held exactly by
the thread whose `pc` is in the critical section (`MutexInv`) and that the mask bit
and the event are set only between their two stores (`ListenInv`);
it holds with timeouts as well. The remaining theorems assume `~MayTimeOut`, and
they need it: section 4 has the counterexamples. `TimelyInv` follows the single
*token* of the protocol: from HSTART to the pulse, exactly one of start, engine,
interrupt, claimed interrupt and queued pulse is present, it belongs to the holder
of the mutex, and otherwise there is none (`TokenInv`, `HolderInv`); with `CallInv`
it yields `TimelyTruth`, `TimelyOwn` and `TimelyDescriptor`, and `TimelyRefines`,
that every step of the protocol is a step of `CtxLoad` or a stutter.

**SdmaInitProofs.** All under `SerialLoad`. `OneAtATime`: `InitExclusive`. The invariant
adds that whoever is in the shared part holds `libinit_mutex` (`LibInv`), and that a
process is loaded only when the memory is ready and only threads of loaded
processes are in the library (`LoadInv`): without it the initialisation of the
mutexes could undo a lock, which is what happens when `SerialLoad` is FALSE.
`Counted` and `ResetsAlone`: `CountsRight`, `ResetAlone`. `CountInv` adds that
`processinit_mutex` is held by whoever is between its lock and unlock (`HeldInv`),
that a thread that found its process to be the first or the last user is alone in it
(`AloneInv`), and that both counts are cardinalities: of the processes that are up
and of the threads that have initialised, less or more by who is in between
(`SumsInv`). The steps that count are a few lemmas on cardinalities.

**SdmaChanProofs.** Both hold though a channel may be given to two threads and a process may
end at a NULL pointer. `TypeCorrect`; `HostOvr`: `HostOvrOwnBit`, from who has a channel
(`OwnInv`), `register_mutex` (`MutexInv`) and that a value of HOSTOVR read under it is the
register's until it is written back (`ReadInv`). `Listens`: `ListensToOwn`. What the tables of a
process know of a channel comes from a thread of that process that holds it and has not yet
taken it out (`IrqInv`): of several holders each takes out what it has put in, in the order
mask, event on both ways.

**CanProofs.** All for any mailboxes, lists and both values of `KeepsNew` and `FullMsg`.
`RxOrdered`: `RxInOrder`. A frame may be in the mailbox, copied and listed at once, and only
the flag tells them apart, so `RxInv` says what a set flag means: the frame in the mailbox has
been listed less often than it may be (`FlagInv`), a frame that has come since the registers
were read not at all (`FreshInv`), the copy is not older than what is listed (`CopyInv`), and
the handler's place determines which mailbox it may be looking at (`PlaceInv`).
`AckedAfterSent` and `NeverOverwritten`: `AckedWereSent` and `TxNotOverwritten`. `TxInv`
follows a transmission: one that is enabled is in one place at most, with the thread that
starts it, on the air, in the flag or with the handler, and one that is not enabled is in
none (`TokenInv`); what is in transmission is the head of the list (`FrontInv`), and the list
increases from what was acknowledged last (`WaitInv`). That the flag handled is the flag
cleared (`TxPlaceInv`) is where the reads have to agree: the invariant is
`agreed => TxInv`, and section 4 has what happens otherwise.

**EnetProofs**, transmit side. `Counts`: `InuseCounts`, unconditionally:
`tx_descr_inuse` is the distance of the indices because a reaping stops at the producer
(`RingOK`, arithmetic of `After` and `Dist`), and a frame is loaded only with more than
`MX6Q_MAX_FRAGS` free. `NeverEnd`: `NeverHitsEnd`, under `~StopsBusy`: every READY
descriptor is one in use (`ReadyInv`), which stopping with frames in the ring breaks.
`FramesInOrder`: `SentInOrder`, under the same. `OrderInv` says that the descriptors
from the controller's place to the producer index are the frames from `Len(sent) + 1` to
`taken` one after another (`ChainOK`), all of them given to the controller but the one a
thread is just filling, whose first descriptor becomes READY last (`Filled`, `Filling`),
and that the consumer index is behind the controller (`PlaceOK`): a reaping stops at the
first READY descriptor and so never passes it (`ReapBehind`). `LiveBuffers`:
`FreedIsUnderway`, under the same, for a controller that hands the descriptors of a
frame back in any number of steps. `FreedInv` adds that only buffers of frames that have
been sent, or of the one that is being sent, are freed; it rests on `OrderInv`.

**EnetProofs**, receive side. `TypeCorrect`; `QueueWorked` and `InCharge`:
`QueueIsWorked`, `OneInCharge`, from one invariant that adds who holds `rx_mutex` and
that `rx_full` is set only while the queue is worked on (`ChargeInv`). `OneAtATime` and
`Ordered`: `OneFrame`, `InOrder`, from `ChargeInv` and `RxOrderInv`, which counts places
from the driver's index: for some `m` the first `m` places hold fragments that follow
one another up to the controller's index and the others are empty (`RingInv`); what is
taken is the first part of one frame, continued in the ring until it is complete
(`PartInv`); what is queued or passed up is older than all that is not (`GoneInv`). The
coming fragment counts as place `m`, so that an arrival and a discard only move the
window.

**SerialProofs.** `OutputKept`: `OutputInOrder`, with handlers and threads on any
processors. Bytes pass through five places, and the invariant is about their
concatenation `All`, from the wire to the buffer of io-char: it increases, and as long
as DMA is not given up it is complete (`SortInv`). Most steps leave `All` as it is,
given that the buffer is empty while the channel has a transfer (`OwnInv`). `InputKept`:
`InputInOrder`, under `~UserRts`: what has arrived and is not passed up is in the half
the channel has left or in the one it has just filled, and somebody is to start the
channel unless it runs (`HalfInv`). The condition is needed, see section 4.

**SpiProofs.** `LocksExclude`: `LockExcludes`, under `NamesDevice`, which it needs:
section 4 has the counterexample. It is inductive with the types of what it compares
(`LockInv`, `ChipInv`). `NothingLost`, `CountsDown` and `TransfersComplete`:
`NoOverrun`, `ReadsReceived`, `Exchanged`, for every size of word, FIFO and burst and
every length, until a transfer has timed out. A burst is followed by four numbers of
words: it has `N`, of which `T` are loaded, `X` exchanged and `R` received. `Ends(n)[k]`
says at which byte word `k` of a burst of `n` bytes ends, the first word being short by
`Pad(n)`, so that the code's counts are `Ends` of the numbers of words (`Counts`), and
`T - R` is at most the size of a FIFO. `Burst` adds what follows: the transmit FIFO
holds the words from `X + 1` to `T`, the receive FIFO those from `R + 1` to `X`, the
buffer is received up to word `R`, and the wire has had all up to `X`. `Phase` goes with
the place of the thread and of the handler. The controller has yet to exchange no less
than the rest of the burst, and maybe more, if it works with the length of the one
before (`Rest`); TC is set only when `X` is `N` and before `R` is (`Complete`); what the
handler is about to read has been exchanged, and if it is the end of the burst, the
burst has ended (`Moving`); the pulse is there once, when all words are received.
Between bursts nothing is under way in the FIFOs, and the controller is done or has been
started for a full burst (`Between`, `Clean`). What the handler's loop does to the
buffer is one lemma (`FilledIs`), from the fact that the words it reads are neighbours
(`EndsNext`, `Locate`). After a timeout none of this need hold (section 4).
`Implements`: `ImplementsBus`, under `NamesDevice`: with `LockInv`, `XferInv` and that a
transfer in progress has a device (`BusyInv`), each step is one of `SpiBus` or a
stutter. The step from the last burst to "done" is the exchange, a message is a use of
its device, and what is between is a stutter, the handler and the controller included.

**FridaCiProofs.** `TypeCorrect` and `DepsAlwaysReady`: whatever fails, times out or
is skipped, an unflunked build has every bundle its compile or release needs. The
inductive invariant says that published bundles have published bundles behind
them (`BehindInv`), that the bundles of halting commands passed are published
(`AssuredInv`), and in an unflunked build those of all commands passed
(`TriedInv`). `BehindAssumption` is what makes a roll keep `BehindInv`,
`NeedsAssumption` what makes `TriedInv` enough. The theorem is for any builders,
recipes and number of revisions that satisfy the two, and a change to `master.cfg`
need only satisfy them again.

`NeverACircle`: `NoCircle`, for any recipes and stages that are `Staged`, if nothing fails
(`Reliable`) and all revisions have one dependency version (`OneVersion`). The invariant adds
that an idle builder has rolled all its bundles (`RolledInv`; no build fails then, because of
`DepsReady`). If nobody could go on, every build would await a missing bundle. Take one of the
earliest stage (`Least`): its builder has not rolled it, so it is building, and stands at a
wait before that roll, for a missing bundle of an earlier stage. Both conditions are needed: a
roll that failed, or a version whose revision a builder skipped, is awaited until the step
times out.

**Checked with TLC only.** Liveness (`CallReturns`, `CallsReturn`, `WaitsForBusOnly`,
`EveryRequestBuilt`, `OutOfDescriptorsEnds`, `KickRepaired`, `ReceptionGoesOn`,
`OutputSent`, `InputResumes`, `XferReturns`): fairness and ENABLED are outside this
prover's reach.

## 6. Not modelled

Wording, options, logging, resource lookup and register set-up sequences; the
contents of contexts and messages; the RAM script; processes that die without
`sdma_fini` (the library has no code for it); Buildbot's worker management, the
website builder, IRC and the web interface.

- *SDMA*: the descriptor ring, where the callback sets DONE again in all descriptors
  though the controller may be inside the ring (`api.c:284`) and `n_frags` is 0 before
  the first set-up (`api.c:749`); the failures of the constructor (`init.c:55-85`,
  `103-107`), after one of which the shared memory exists and no process initialises it.
- *CAN*: the masks changed without a lock and freeze mode (`canmx6x.c:389`).
- *Ethernet*: time stamps (`ptp.c`) and with them a reaping without the lock, beside
  `tx_descr_inuse += num_frag` (`transmit.c:229` and `404`); the PHY, settings of
  `devctl.c`, the other two queues of the i.MX6SX.
- *Serial*: input by interrupt, the line settings of `ser_stty`, the failsafe timer of
  the output by interrupt, characters that pass a stopped output (OSW_PAGED_OVERRIDE),
  the moment inside `dev_cleanup` when the channels are released and the handlers still
  attached, the update of `flags` at `tto.c:187`, which is not atomic, and a second
  port, though both ports share `byte_cnt`, which is static in `tto`.
- *SPI*: interrupts that are not the controller's (`intr.c:52-56`), exchanges by DMA,
  one word per burst, the chip select by GPIO, growth of the buffer, the settings of a
  device; its LOCK bits.
- *The rest*: I2C (`wait.c:74`: a spurious wake-up while the interrupt is masked) and
  the SD/MMC driver are planned; audio is register set-up on top of the SDMA channels;
  touch screen, watchdog and clock are single loops or sequential commands; boot loader
  and start-up are sequences of register writes; the worker images keep no state. By far
  the most lines of the repository are headers of register names and tables of boards,
  which have no behaviour to model.

## 7. Plan

Order of work, most important first.

1. Proofs: abstract specifications of the two Ethernet rings and of the serial port as
   queues that may drop only what the code may drop, and the refinement of each from the
   invariants already proved.
2. `SdmaRing`: `sdma_setup_xfer`, the ring, the re-enabling callback against the
   engine, `sdma_bytes_left`; as abstract specification a cyclic buffer that loses
   nothing; then `Serial` and audio as its clients.
3. `I2cWait`: masked interrupts, spurious wake-ups, timeouts and resets.
4. `CanMask`: `can_drvr_devctl` on shared masks, freeze mode, the minidriver.
5. SD/MMC: the request queue, timeouts and retries, hot removal.
