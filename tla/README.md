# astrocam: TLA+ models and proofs

astrocam drives USB astronomy cameras from Go without the vendor's library. What
makes that hard is concurrency over one slow, stateful device: several threads call
one `Camera`, no lock is held across USB I/O, the sensor goes on streaming until it
is told to stop, and the driver's recovery from a lost frame looks much like its
reaction to a stop. This directory models that part of the program and says what
holds of it.

References are to files of the repository under `src/`.

## 1. The system

| Part | State | Operations | Talks to |
|---|---|---|---|
| Exposure lifecycle (`capture.go`, `camera.go`) | exposure status, generation, abort signal, adopted video session, the "dead" breaker | `StartExposure`, `StartVideo`, `StopExposure`, `GetDataAfterExp`, `ReadFrame`, `Close` | sensor workers (callback with a `WorkerCtl`), transport |
| Sensor workers (`sensors/imx*.go`) | counters of a call and, on the DDR profiles, the reload ticker; sensor and FPGA registers | arm, open and close the integration window, read, retry ladder, deferred halt | lifecycle (`Aborted`), transport |
| Transports: usbfs (`transport_linux*.go`), IOKit (`transport_darwin.go`), WinUSB (`transport_windows*.go`) | `ioMu`, abort latch and, on IOKit, abort generation, `closeMu`, `broken`, open sessions and their transfers | control transfers, whole-frame reads, resident sessions, resets, `Close` | kernel, device |
| Cooling (`cooling.go`, `thermal*.go`, `camera.go`) | the running loop's handle, the thermal seam, the last fault, the write cache; per loop its target and failure count | `EnableCooling`, `DisableCooling`, the regulation goroutine, `SetTECPower`, `SetHeater` | transport, device reset of a capture's recovery |
| ST4 guiding (`guide.go`) | asserted lines, pulses in flight | `PulseGuideOn`, `PulseGuideOff`, `PulseGuide`, `IsPulseGuiding` | transport, past `ioMu` |
| Readout configuration (`camera.go`, `readoutmode.go`) | ROI, bin, depth, gain, offset, readout mode | setters that write registers and roll back on failure | register protocol |
| Register protocol (`protocol*.go`, `fpga*.go`) | none; strobe and mode registers of the FPGA | single, burst and read-modify-write accesses | transport |
| Frame repair and binning (`capture.go`, `protocol_poa.go`) | the caller's buffer | marker repair, marker offset, host binning | lifecycle (refused frames), defect maps, configuration (window, bin) |
| Exposure timing (`shutter.go`, the profiles' `SetExposure`) | none; line period, frame length, shutter and trigger registers | line time, HMAX, VMAX and SHS arithmetic | register protocol, configuration (window, depth, mode) |
| Enumeration and hotplug (`device.go`, `hotplug*.go`) | a subscription's channel, its threads, the map of handles | enumerate, open, watch | OS |
| Defect maps (`defectmap*.go`) | the map | read and decode a table from flash, apply it to a frame | register protocol, frame repair |
| gosnap (`cmd/gosnap`) | none shared | command-line client | `Camera` |

How they interact: a controller thread claims an exposure under `Camera.mu`; a reader
thread snapshots the claim and runs the sensor's worker, which asks `Aborted()`
between its steps; a stop raises the transport's abort latch so that the read in
flight ends, then halts the readout; regulation loops write FPGA registers through
the same control pipe all along, past a cache that a capture's device reset
invalidates.

What is hard, and what makes each part correct:

- **Lifecycle.** A stop, a superseding start or a close arrives at any point of a
  capture that is reading, retrying or resetting the device. Correct means: an abort
  sticks, it ends the capture promptly, a superseded capture leaves its successor
  alone, a frame is delivered once, the readout ends halted, nothing leaks, and stop
  and close return.
- **Workers.** Any of some forty transfers of a capture may fail, an abort may come
  between any two, and a ladder re-arms in the middle. Correct means: the trigger
  signal is dropped, the readout halted and the ticker joined on every way out, and a
  triggered frame is read only after its own window.
- **Transports.** A read that waits for a frame holds locks that the stop and the
  close need; a session's transfers stay in order and its frames aligned over short
  transfers, trailers, stalls and aborts; the handle is freed under nobody, and no
  memory under the kernel.
- **Cooling.** Enable, disable, close and a loop that retires itself race on one
  handle. Correct means: no orphaned loop, no handle of a dead loop, never quietly
  off, no drive left on, a cache that does not lie, the fan running while driven.
- **Guiding.** What is reported follows what is asserted, over overlapping pulses and
  failed transfers.
- **Configuration.** Setters compose: any order of depth, mode, split and window
  leaves registers that agree with each other, and a setter that fails half way leaves
  the driver's view as it was and the read of the next frame of the right length.
- **Timing.** The sensor integrates as long as was asked for, at the line period it
  really runs, whatever window, depth, mode and throttle calls came before or after.
- **Frames.** Repairs and binning follow one another in one buffer. Correct means: no
  output is made of a pixel already overwritten, of a marker, of another frame or of
  another colour.
- **Hotplug.** A system callback or a blocked read ends with a context. Correct means:
  nobody sends on a closed channel, and every subscription ends.

## 2. Modules

| Module | Contents |
|---|---|
| `Exposure` | what the lifecycle promises its callers, with no threads and no device |
| `Capture` | exposure lifecycle, with the parts of workers and transport it depends on; implements `Exposure` |
| `Workers` | the capture workers of the seven sensor profiles, one control transfer per step |
| `Cooling` | cooling life cycle, `SetTECPower` and the write cache |
| `Backends` | a device of each of the three backends: its locks, abort, sessions and `Close` |
| `FrameReads` | one whole-frame read, by each of the eight engines of the backends |
| `Stream` | a resident usbfs session from the inside |
| `Sessions` | the resident sessions of IOKit and WinUSB from the inside |
| `Windows` | the arithmetic of readout windows, as pure operators |
| `Readout` | the configuration setters over `Windows`, with register groups and failing transfers |
| `Timing` | line period, frame length and shutter after any sequence of setters |
| `Guide` | ST4 pulse guiding |
| `Frames` | marker repair, defect map and host bin of a frame, in place |
| `Hotplug` | a hotplug subscription on each platform |
| `CaptureProofs`, `WorkersProofs`, `CoolingProofs`, `StreamProofs`, `SessionsProofs`, `BackendsProofs`, `FrameReadsProofs` | theorems of the module each is named after; `CaptureProofs` ends with that `Capture` implements `Exposure`, `FrameReadsProofs` with `Frames` |
| `SettersProofs` | theorems of `Readout`, and of `Guide`, `Hotplug` and `Timing` beside it |
| `MC...` | instances for TLC |

An MC module extends one of these and, where one run asks the same kind of question of
several modules or instances, instantiates the others beside it, each with variables
of its own; a variable `scenario`, chosen at the start, says which of them a behaviour
is about, and the others stand still. `MCCoolers` holds three instances of `Cooling`;
`MCStreams` `Stream`, `Sessions`, `FrameReads`, `Backends` and `Frames`; `MCWorkers` `Workers` and
the free-run instance of `Capture`; `MCSetters` (over `MCReadout`) `Readout`, `Guide`,
`Hotplug` and two instances of `Timing`. `MCFrames` has no scenarios: it keeps the captures of a
behaviour to one kind.

`Capture` composes the lifecycle with what it needs of workers and transport in one
module, because nearly every step of one is guarded by the state of another. What it
abstracts is detailed elsewhere: a worker's arm, ladder and halt in `Workers`; the
actions `NextFrame`, `NextBroken` and `NextTimeout` in `Stream` and `Sessions`, a
whole-frame read in `FrameReads`, the locks under both in `Backends`. `Cooling` meets
`Capture` in `ResetDevice`, made by a capture's recovery, and in `Close`. `Readout` and
`Timing` are the configuration between captures: `Readout` leaves to `Capture` the length
of its read (`FrameBytes`), and `Timing` leaves to `Workers` the trigger band.

In `Capture` and `Cooling`, `pc[t]` is the step thread `t` takes next, an action is one critical section
of a lock, one transport call, or one access of a shared variable. In all modules an
operator `FaultyX` is a wrong form of the definition `X` that follows it: no specification
uses it, and putting it in place of `X` breaks the property it is there for.

### 2.1 Capture

| Variables | Code |
|---|---|
| `status`, `expGen`, `expAborted`, `vidStream`, `dead` | the `Camera` fields `status`, `expGen`, the abort signal, `vidStream`, `dead` |
| `latch`, `io`, `sessions`, `opened`, `closed` | `usbfsDevice.readAborted`, the holder of `ioMu`, `streams`, `closed` |
| `streaming`, `fwOK` | the readout runs; the FX3 runs its firmware |
| `gen`, `att`, `ses`, `res` | locals of `GetDataAfterExp`, the worker and `ReadFrame` |
| `cause`, `late`, `delivered`, `shots` | history for properties; `shots` also steers patient callers |

Actions by call:

| Call | Actions |
|---|---|
| `StartExposure` | `DeadCheck`, `StartClaim`, `TakeStream`, `DropStream`, `ArmRead`, then on the path without a worker `ArmStop`, `ArmStart`, `StartRelease` |
| `StartVideo` | `DeadCheck`, `VideoBusy`, `TakeStream`, `DropStream`, `VideoAbortRead`, the arm, `VideoClaim`, `ArmRead` |
| `StopExposure` | `StopMark`, `TakeStream`, `DropStream`, `AbortRead`, `StopWrites` |
| `Close` | `CloseCheck`, all of `StopExposure` if a capture is claimed, `TransportClose` |
| `GetDataAfterExp`, worker | `Snapshot`, the arm, `Integrate`, `BeginRead`, `ReadFull`/`ReadBroken`/`ReadTimeout`, `WorkerShort`, `Ladder*`, `WorkerHalt`, `WorkerErr`, `Probe`, `Fail`, `Accept` |
| `GetDataAfterExp`, no worker | `Snapshot`, `Attempt`, the read, `ReadDone`, `NextAttempt`, `Recover`, the arm, `Rearmed`, `GiveUp`, `BusReset` |
| `ReadFrame` | `FrameLook`, `FrameOpen`, `FrameAdopt`, `FrameNext`, `NextFrame`/`NextBroken`/`NextTimeout`, or the whole-frame read |
| external | `Call`, `FirmwareDrop` |

Parameters describe the profile (`HasWorker`, `GatedRead`, `HaltsFailedArm`,
`WorkerReads`), the driver (`FrameReadAttempts`) and the callers (`PatientCallers`:
each read is matched to the start that claimed the capture, which is what the
package's example and gosnap do; without it any call comes at any time). Bounds:
`MaxGen` claims, `MaxSessions` session openings; both are spent only by calls that
need them, so the guards cut behaviours short and never change a step.

Assumptions of the model: a write that reports an error did not reach the device; a
stop's control writes succeed on a device that answers; the marker repair's verdict on
a full frame is a choice (accepted or desynced); each rung of a worker's ladder is a
re-read or a device reset, in any order, up to `WorkerReads`; the whole device reset
leaves the readout halted. `DroppedFrames` and logging are left out.

`Implements` states that `Capture` implements `Exposure`: `current`, `stopped` and
`frames` are `expGen`, `expAborted` and `delivered`, the other two go by their names,
and every step is one of the abstract module or a stutter. What that forbids: a status
written for a superseded exposure, a stopped exposure that works again, a single shot
begun over one that is working, a frame credited to an exposure not begun.

### 2.2 Cooling

| Variables | Code |
|---|---|
| `cooler`, `thermal`, `coolFault` | the `Camera` fields; `coolCancel` and `coolDone` belong to the loop `cooler` names |
| `cache` | `coolWrites` |
| `io`, `on`, `fails`, `cancelled` | a `Cooler`'s backend, its `on`, `Run`'s count, its context |
| `tec`, `flags` | the drive register; the fan and heater bits |
| `own`, `want`, `lvl`, `snap`, `ret` | locals: the loop a call stops, the backend it names, the argument of `SetTECPower`, the value a read-modify-write read, where `SetTECPower` returns |
| `wanted`, `excused` | history: the last enable or disable to take effect enabled; the shutdown zero itself failed |

| Call | Actions |
|---|---|
| `EnableCooling` | `EnableCheck`, on a swap all of `DisableCooling`, `EnableStart` or `EnableFresh`, `EnableTarget` |
| `DisableCooling` | `DisableTake`, `DisableCancel`, `DisableJoin`, `DisableCheck`, `DisableZero`, `SetTECPower` |
| `Close` | all of `DisableCooling`, `CloseZero`, `SetTECPower`, `CloseTransport` (its capture half is in `Capture`) |
| the loop | `StepFails`, `StepSkips`, `StepDrives` and `SetTECPower`, `LoopCancelled`, `GiveUp`, `RetireCheck`, `Retire` |
| `SetTECPower` | `Fan*`, then `Level*`: through the cache, read, write, mark, or fail |
| `SetHeater` | `HeatRead`, `HeatWrite`, `HeatFails` |
| `ResetDevice` | `ResetInvalidate`, `ResetDevice` |
| external | `Call`, `Unplug` |

Temperatures and the PID are data: a tick that has a target drives any level or
none. `coolRefresh` may pass at any time, so a cached value can always be written
again. A write that reports an error may or may not have reached the register. `snap` is reset
when the access that read it ends, which no step can tell and which keeps the state
space small.
`ForgetsFailedWrite` and `FanInFlags` are the two differences between the ZWO backend
(both true) and PlayerOne's. A cooler that runs again after its camera was closed is
no use of the package, so no call starts on a closed camera. `MaxLoops` bounds the
loops started; a call that might need one is made only while there is room.

### 2.3 Workers

One camera makes captures one after another with one profile (`die`). A profile is a
record of the transfers it makes: `arm`, the shorter `rearm`, what opens and closes
the integration window (`open`, `close`, and whether this exposure's band has one),
the chains of the exit (`halt`), whether the deferred halt covers a failing first arm
(`covers`), and whether the reload ticker runs (`ticks`).

| Variables | Code |
|---|---|
| `dev` | the control bits that read 1: FX3 streaming, readout stop, WaitMode, sensor gate, trigger signal, XHSStop, low power |
| `pc`, `todo` | the worker's place; the chains of transfers it has to make first. A chain ends at its first failing transfer, and on a best-effort exit the next one begins |
| `first`, `aborted` | the deferred halt may not be in place yet; `ctl.Aborted()` |
| `ticker` | the `FPGABufReload` goroutine of the DDR profiles |
| `attempt`, `zeros`, `reloads`, `retries` | the counters of the IMX290 and IMX462 ladders |
| `trig`, `usb3` | the exposure's band; the link |
| `res`, `win`, `lost`, `exitFailed`, `stalls` | history: how the call ended, the window since the last arm, and what a failing transfer excuses |

| Code | Actions |
|---|---|
| the call, a stop | `Start`, `Abort` |
| any control transfer | `Transfer`, `TransferFails` (with or without its effect) |
| arm, window | `BeginArm`, `Armed`, `Opened`, `Held`, `HoldAborted`, `Rearmed`, `Closed`, `Dropped` |
| read and ladders | `ReadEnds` (`Read174`, `Read178`, `ReadDDR`, `Ladder290`, `Ladder462`), `Reloaded` |
| exit | `Joined`, `Returned` |
| the ticker | `TickerPulses`, `TickerPulsed`, `TickerStops` |

Sleeps and `ResetEndpoint` touch none of the bits and are left out; the IMX571 and IMX455 standby
and wakeup bits are folded into the master gate; the ladders' `ResetDevice` may leave
the FX3 streaming or not. Bounds: `MaxCalls` captures, `MaxFaults` failing transfers.

### 2.4 Stream

| Variables | Code |
|---|---|
| `slots` | `usbfsStream.slots`: `own` is `armed` ("kernel"), `done` ("host") or a dead slot ("none"); `from`, `n` say which of the device's bytes a reaped URB holds; `bad` is an error status |
| `next`, `submit`, `segOff`, `desync`, `closing` | the fields of those names (`closed`, with its drain in progress) |
| `leaked` | `forfeit` parked the buffers and broke the device |
| `busy`, `copied`, `tail`, `buf` | locals of a `Next` in progress |
| `latch`, `sent` | `readAborted`; how far the device's output has been reaped |
| `frames`, `cut` | history: what Next returned as whole frames; a Next returned within a trailer |

| Call | Actions |
|---|---|
| `StartStream` | `Init` |
| `Next` | `NextEnter`; per pass `Consume` (copy, drop, recycle and resubmit) or `ConsumeBad`; `Reap` or `ReapFails`; `NextDone`, `NextShort` (aborted or idle) |
| `Close` | `CloseBegin`, `DrainReap`, `DrainDone`, `Forfeit` |
| other threads | `AbortOrArm` |

A byte is its position in the device's output, so a misplaced, missing or repeated byte
shows. A transfer ends anywhere (a DMA commit), with zero length too; `MaxSegments`
stops zero-length transfers and `MaxFrames` the device's output, both in the guard of
`Reap` only. URBs of an endpoint complete in submission order. `MaySubmitFail` covers
both the truncated first window and refused resubmissions; `MayStall` error statuses
and failing reaps. The clock is a choice: a waiting Next may idle out at any time.
Left out are calls the session refuses at once (closed, desynced, broken), a refused
first URB (no session), and other readers of the descriptor, which the contract
excludes.

### 2.5 Sessions

The resident sessions of the two other hosts. Slots, `next`, `submit`, `segOff`,
`busy`, `copied`, `tail`, `buf` and the positions of bytes are as in `Stream`; what
differs is here:

- IOKit's callback marks a slot done (`Complete`, `posting`) and then signals a
  semaphore (`Signal`, `comp`). A wait consumes a signal, whichever slot posted it
  (`WaitSignal`, `unclaimed`); recycling a slot claims one (`Claim`).
- `NextZC` lends a whole slot out (`ZCEnter`, `ZCMarker`, `ZCFrame`, `ZCIdle`, `held`) and
  `Release`, or the next call, takes it back (`ReleaseHeld`). It is for sessions whose
  transfer holds one frame, and it looks neither at the desync latch nor at what a
  `Next` left of a segment, so the model calls it between whole frames only.
- WinUSB drops no trailer and latches no desync; its branch in `Next` that skips a dead
  segment's number is never taken (`SegmentsHeld`).

`Close` is `CloseBegin`, then `Drained` or `Forfeit`.

### 2.6 FrameReads

One whole-frame read. Cover engines put transfer i at its own offset and count a
prefix: `urbs` and `urbpreq` (usbfs), `async` and `preq` (IOKit), `winbatch` (WinUSB).
Mark engines read into scratch and copy to a watermark: `urbstream` (usbfs),
`winstream` (WinUSB), `pump` (IOKit).

| Variables | Code |
|---|---|
| `slots`, `fifo`, `ready` | the transfers, those with the kernel in order, those completed in order |
| `nxt`, `cur`, `buf`, `got`, `outstanding` | locals of the engines; the last is what the pump's transfers in flight have asked for |
| `pc`, `ret`, `out` | priming, the loop before its tests and behind them (`reap`), the drain, done; what the call returns |
| `late`, `latch`, `broken` | the deadline passed; `readAborted`; the transport is poisoned |
| `refused` | refusals so far, bounded by `MaxRefused` |
| `excused` | history: something happened that may leave the frame short |
| `after` | history: transfers a loop submitted since an abort or the deadline |

Actions: `Prime`, one transfer of the window per step, with refusals; `Loop`, one operator
per engine. A loop that submits again takes two steps: `Test` looks at what is in, the
latch and the deadline; then, after a wait of any length, it reaps, counts and recycles
or submits without looking again, as the code does. IOKit's two batch engines submit
all they ever will while priming, and test after they reap. `DrainReap`, `Finish`,
`Abandon` are the way out; `Complete` is the kernel's, which ends a transfer anywhere, with
zero length or with an error; `Clock` and `AbortRead` may fall between any two steps,
those of the priming included. A byte is again its position in what the device sends.

### 2.7 Backends

The threads that share one device: a frame reader, a controller of EP0 transfers, an
aborter, `Close`, users of sessions, and `StopExposure`, which closes a session another
goroutine reads from. `host` picks the backend.

| Variables | Code |
|---|---|
| `shared`, `writer`, `io`, `mu` | who is inside `closeMu` shared, how far `Close` is with it, who holds `ioMu`, who holds a session's lock |
| `closed`, `broken`, `freed` | the fields; `dFreed` |
| `latch`, `heard` | `readAborted`; on IOKit, the generation moved since the reader's snapshot |
| `sess`, `reg`, `target`, `todo` | each user's session; the registry; the session the stop closes; what `Close` has yet to stop |

Every call is `...Call`, its entry with the checks in the host's order (`Enter`,
`Refused`), the gate (`TakeIo`; a quiet read takes it only after its quiet window,
`QuietGate`), and its end. `Close` is `DeviceClose`, `DeviceLocked`, `DeviceStops`,
`DeviceFrees`, `DeviceClosed`. `MayBreak` lets a drain give up and poison the device;
`CameraStops` lets `StopExposure` close an IOKit session in the middle of a `Next`,
which its contract excludes and `ReadFrame` beside `StopExposure` does.

### 2.8 Readout and Windows

| Variables | Code |
|---|---|
| `body` | what `Open` fixes: vendor, geometry, binning factors, sensor modes |
| `cam` | the `Camera` fields `bin`, `hwBin`, `roiX..roiH`, `roiProgrammed`, `gain`, `offset` |
| `mode` | the `ReadoutMode` the Regmap carries |
| `dev` | the device's register groups, each the value last written, `Unset`, or `Torn` (half written): sensor mode block, die binning, sensor window, FPGA register 0x0a, frame size, gain, offset, HDR offset |
| `faults` | transfers that failed, at most `MaxFaults` |

Setters run one at a time between exposures (the package asks callers for that), so a
call is one action; what makes them hard is that each is a sequence of transfers any
of which may fail, in the middle of its own undoing too. A procedure is therefore the
set of its outcomes, `[s |-> the state it leaves, ok |-> it returned nil]`, and `Then`,
`OrElse`, `Ignore` and `Failed` are Go's `if err != nil` forms. The operators keep the
source's names: `SetROI`, `SetBinning`, `SetHardwareBin`, `SetOutputDepth`,
`SetSensorMode`, `SetHighSpeedMode`, `SetBinSum`, `SetGain`, `SetOffset`, `InitCamera`
(`Camera.Init`), `RestoreWindow`, `Reprogram` (`reprogramWindow`), `ReapplyOffset`;
`Resplit` is what `SetBinning` and `SetHardwareBin` share, `SetROIZWO` and `SetROIPOA`
are the IMX455's window on ZWO and the IMX585's on PlayerOne. `Windows` holds
`binSplit`, `sensorSplit`, `fullWindow`, `roiStep`, `alignStart`, `ClampROI` and the
checks of `SetROI`.

Abstractions: a group of registers is written by one transfer (a failure inside it is
`Torn`, before it leaves the old value); a read-modify-write of a register nothing has
programmed leaves it so; gain and offset codes are pairs of the value and the mode
they are computed for. The windows and gains of the other dies and white balance are
left out; exposure and frame rate are in `Timing`.

### 2.9 Timing

What `SetROI` and `SetExposure` write between them. A call is a row of register
writes (`ExposureRow`, `WindowRow`, one operator per profile); if a transfer fails the
device holds what the row wrote up to there (`After`).

| Variables | Code |
|---|---|
| `die` | the profile |
| `mode` | the part of the `ReadoutMode` timing reads: window, bin, bytes per pixel, high speed, link, throttle, frame-rate cap, HDR |
| `dev` | wait and trigger bits, HMAX, VMAX, SHS, clock select, the IMX174's long-exposure cycles, the rows handed to the FPGA, what the readout format is for |
| `expDur` | the field |
| `settled`, `fresh`, `broken` | history: the last window row was complete; `SetExposure` succeeded since; the last `SetExposure` failed |

Actions: `SetExposure`, `SetROI` (`SetBinning` and `SetHardwareBin` end in it),
`SetHighSpeedMode`, `SetOutputDepth`, `SetSensorMode`, `SetFPSPercent`,
`SetFrameRateLimit`; `SetUSB3`, called after `Open` if at all, is the choice of `Links`
(checked on PlayerOne's profile; ZWO's are on SuperSpeed).
Integers keep their meaning and not their width: `MulDiv` splits a product that does
not fit TLC's integers. The clamps to 16 and 24 bits are those of the code, but for the
24-bit ceiling of the frame lengths of the IMX455, the IMX571 and PlayerOne's IMX585,
which is out of reach: below the trigger band no throttle, cap or duration makes a frame of
two million lines, and from it up their frame length does not depend on the duration.
`TimingConstants` types the constants.

### 2.10 Guide

`lines` are the directions asserted at the port, `st4Lines` and `st4Pulses` the fields,
`at`, `call` and `dir` a thread's place in its call. `PulseGuideOn` is `Assert`, `Mark`;
`PulseGuideOff` is `Release`, `Clear`; `PulseGuide` is both between its count and
`Uncount`; `Fails` ends any of them at its transfer.

### 2.11 Frames

A complete frame on its way from the wire to the caller. A sample is known by the wire
pixels it is made of (`buf`, position to set of pixels), markers and the pixels of an
earlier frame being pixels of other names; values, with their clip and rounding, are
left out. `step` and `at` are the place in the code and its loop index: `RepairFX3`
(`repairFX3DMAMarkers`), `RepairVendor` (`repairPOAFrameMarker`, one marker a step),
`RepairDefect` (`ApplyWindow`, one defect a step), `Judge` (the caller's look for a
boundary, `fx3MarkerOffset`, and its refusal), `BinOne` (one output sample of the four
bins) and `Return`. `wire`, `start`, `second` and `flagged` say what was sent: profile,
bin and window; how early the read began; where a die-binned frame has its second marker, at any sample,
for the code knows of no rule; and the pixels the defect map names, in coordinates of a larger array.

`FrameHolds` compares with a definition that knows no loops: `Footprint` is the set of
pixels of an output's colour in its part of the sensor. Three assumptions are made on
the map, each needed (section 3): `Isolated`, `SourcesGood`, `BoundaryKept`.

### 2.12 Hotplug

`serve` is the place of whoever sends: the reader goroutine on Linux, the run-loop
thread on macOS, the system's callback on Windows; `stop` the goroutine that waits for
the context. `queue` and `open` are the channel, `registered` the handle's entry in the
map, `socket` the descriptor, `published`, `stopped` and `freed` the run loop's. What
the systems do is external: `CloseWakes` (closing the socket ends the read that waits
on it, as the comment at `hotplug_linux.go:36` has it), `MayReuse` (its number is given
away while the reader still has it) and `StopSticks` (a `CFRunLoopStop` before the loop
runs) are constants, so that a run can ask what each answer costs. `MayStep` is the
disjunction of the guards of the code's own steps; `GuardsComplete` has TLC compare it
with `ENABLED` of them, so that a theorem can say without `ENABLED` that a subscription
is at its end.

## 3. What the runs show

A run that passes explores every reachable state of its instance.

| Run | Instance | Shows |
|---|---|---|
| `capture_live` | 1 controller (start, stop, close), 1 reader, any calls at any time, 3-read ladder, 2 claims, fair threads | `TypeOK`; `PromptAbort`: an aborted capture waits in at most one more read; `LiveClaimReadable`: no claimed capture with the abort latch up; `StaleLeavesStatus`: a superseded capture never touches the status; `CallsEnd`: stop and close return, an aborted or closed capture unwinds; `Implements`: the code is an `Exposure` |
| `capture_noworker` | 2 controllers starting, 1 reader, the path without a worker and its recovery, 3 claims | `NoDoubleArm`: one thread at a time arms the readout; `DeliveredOnce` |
| `capture_frames` | the paths without a worker, 2 claims, the captures of a behaviour of one kind (`OneKind`): free-runs with 2 readers racing for the session and 2 sessions, or single shots with one reader at a time, which recovers and re-arms; stops at any time | `SessionsOwned`: no session left open that nobody can find; `PromptAbort`: an aborted capture begins one read at most, whatever its recovery was doing; `StaleLeavesStatus`: a recovery's write-back of Working, and every other exit, spares a successor |
| `workers` | scenario "workers": every profile, 2 captures, 1 failing transfer, an abort at any point; scenario "video": `Capture` with single shots and free-run, 3 claims, one read per capture and none under `ioMu`, a failed first arm not halted | `LeftAtRest`: a call leaves no trigger signal, no streaming and no ticker behind, unless the transfer that was to see to it failed; `ReadsGated`: a triggered frame is read only after its own window; `CallsReturn`: the ladders end, resets included; `HaltedWhenQuiet`: the readout is halted when nothing is claimed or running |
| `cooling` | scenarios "life": 2 callers, failing transfers, loops that retire; "off": 1 caller, close, a device that works; "cache": 1 caller, 2 backends, heater, failing transfers, ZWO cache | `CoolerOnIsTrue`, `OneRegulator`, `EnabledOrFaulted` (life); `DriveKept`: off means no drive, and the fan runs while there is one (off); `CacheIsTrue`: the cache does not lie and `Temperature` reads the backend that is regulated (cache) |
| `cooling_live` | 1 caller with every call, resets, device loss, fair threads | `LoopsEnd`: calls return, and a lost device retires its loop |
| `streams` | scenarios "usbfs": `Stream`, window 2, chunk 2, frames of 3 and trailer of 2, 3 frames; "others": `Sessions` on two IOKit shapes and WinUSB, window 3, 2 frames; "reads": the eight engines, a frame of 5 in chunks of 2, window 2, up to 7 bytes sent and 3 refusals; "device": `Backends` on IOKit with 2 session users; "frames": `Frames` of 12 by 8 pixels, mono and colour, both depths, bins 1 to 4, 4 maps | `TypeOK`, `SegmentsHeld`, `FramesInOrder` (usbfs); `SessionsHold`: segments, the slot lent out, the semaphore's count, IOKit's frames; `ReadsHold`: the count a read returns covers a prefix of the device's bytes, no byte of the next frame is taken, and a short count has a cause; `OneAfterAbort`: after an abort or the deadline a loop submits one transfer at most; `OneSession`; `FramesHold`: no sample returned is made of a marker, of another frame, of another colour or of a pixel the map names, a binned one of exactly what it stands for, and only a frame read early is refused |
| `backends` | each host, 1 session user, everything at any time, fair threads | `HandleHeld`: the handle is freed under nobody; `CallsExclude`; `CallsEnd`: nobody waits for ever, the abort gets past a `Close` that waits for the read it breaks |
| `readout_setters` | scenarios "readout": both bodies, every call, all bins and splits, one sub-window, 1 failing transfer, `ClampROI` over 720 requests at every split; "guide": 2 threads with directions of their own; "zwo", "poa": `Timing` of every profile, 1 failing call; "hotplug": each platform, a channel of 2, 4 notifications, `CloseWakes` and `StopSticks`, not `MayReuse` | `NoDeadMode`; `FrameLengthAgrees`: the next read has the length the FPGA hands over; `CodesFollow`: gain and offset codes follow bin and mode; `WindowHolds`: the window held is always one `SetROI` accepts, and what ClampROI returns it accepts; `FailedCallKeepsView`: an error leaves the driver's view as it was; `LinesReported`: `IsPulseGuiding` tells the state of the lines; `ExposureHolds`: the sensor integrates as long as was asked for at the line period it runs, over a frame that covers the window, and the FPGA waits for a trigger exactly when the worker gives one; `SubscriptionHolds`: nobody sends on a closed channel or serves a freed port, and a subscription ends with its context |

Why the bounds are enough. Two threads of a kind suffice where a property is about two
of them meeting; two claims are the least at which a capture can be superseded, and
three let the superseded one start over; a ladder of two or three reads has a first, a
middle and a last rung, and `workers` runs the real ladders with their real counters.
Two captures let the second meet what the first left behind. Frames of three bytes,
trailers of two and chunks of two make a transfer hold the end of a frame, its trailer
and the start of the next in every combination, and let a trailer straddle two
transfers; a read of five bytes in chunks of two slides its window once over two full
transfers and a remainder, and two bytes more let an engine overread; with three refusals one may
fall in the priming and others on the retries. A frame of 12 by 8 has whole blocks for some
bins and clamped ones for others, in both directions (ZWO's frames also pass at 9 and 10 by 7
and 10), and a channel of two fills. The one-caller
cooling scenarios are one-caller because with two callers the property fails, as the
table below says. In `readout_setters` the geometries are the real ones, so every
binning factor meets the real divisibility of the frame; one sub-window is enough
because what tells windows apart is whether they are legal at another split, and full
windows of every split come with the setters. One offset value suffices because its
code changes with the bin. The exposures are the shortest, one within a frame, one a
microsecond under the trigger bands of most profiles, and one over them all. One
failing transfer is what the rollbacks are written for; with two in one call
`FrameLengthAgrees` and `FailedCallKeepsView` are false and claim nothing.

Runs that end in a violation, each a place where the code does something else than a
comment of the repository says:

| Run | Violated | What happens |
|---|---|---|
| `readout_split` | `SplitReachesDie` | `SetBinning(2)`, `SetHardwareBin(true)` on PlayerOne: the profile reads the die's factor from the readout mode before `SetROI` stores it (`imx585.go:777`, `camera.go:902`), so the die goes on as before until a later `SetROI` |
| `readout_crop` | `CropAsProgrammed` | in HDR, a refused `SetOutputDepth(1)` on PlayerOne: ZWO's output width bit is a bit of PlayerOne's crop origin, and the rollback moves the origin from row 42 to 58 (`camera.go:672`) |
| `sessions_latch` | `EveryBackendLatches` | a WinUSB session whose `Next` gives up inside a frame latches nothing and returns misaligned frames from then on (`transport_windows_stream.go:244`; `transport.go:34` says every backend latches) |

Further properties that hold only within the instances above, and what breaks them
outside, or that the code does not have. TLC shows each with the named change, to a
configuration or to an instance in an MC module, and a reader of the code should know
of them:

| Property | Change | What happens |
|---|---|---|
| `Capture!HaltedWhenClosed` | `capture_live` | Close does not join the reader: a worker that arms after Close's stop writes finds the transport closed when it halts, and the sensor keeps streaming (`camera.go:278`), which `camera.go:265` says crashes the FX3 |
| `Capture!AbortSticks` | `capture_noworker` with `StartStop` | without a worker, a stop during the recovery's arm is overwritten by its write-back of Working (`capture.go:838`); no shipped profile lacks a worker, and with one only claims store Working, so the formula then serves the refinement's proof and is no property of a run |
| `Capture!LiveClaimReadable` | "video" of `workers` | `StartVideo` over a claimed exposure fails its arm and leaves the latch up (`capture.go:478`) |
| `Capture!SingleShotOwnsPipe` | "video" of `workers` | a late `ReadFrame` adopts a session under a single shot (`capture.go:526`) |
| `Capture!BrokenReadIsNoStall` | "video" of `workers` | `StartVideo` breaks the single shot's read before superseding it, and the worker climbs its ladder (`capture.go:466`) |
| `Workers!HaltsEveryReturn` | `workers` | the IMX290 and IMX462 put their halt in place after the first arm, so one that fails half way leaves the FX3 streaming; their comments say every return halts |
| `Workers!StallFreeDDR` | `workers` | the IMX455 counts a stall when it finds data to drain (`imx455.go:280`), where its header says it never does (`imx455.go:317`) |
| `Stream!FramesAligned` | "usbfs" of `streams` | a Next that gives up between a frame's pixels and the end of its trailer returns a full count, marks no desync, and the next frame begins with the trailer (`transport_linux_stream.go:134`) |
| `Backends!DrainKeepsHandle` | `backends` | on usbfs and WinUSB a session's `Close` leaves the registry before it drains, so the device's `Close` frees the handle under the drain; `transport_linux.go:132` and `transport_windows.go:153` say no transfer is left against a freed handle |
| `Backends!SingleConsumer` | `backends` with `CameraStops = TRUE` | `StopExposure` closes an IOKit session that `ReadFrame` reads from; `transport_darwin.go:1622` says the two must not race |
| `OneAfterAbort` with a bound of 0 | "reads" of `streams` | the engines test the latch and the deadline before they wait and not after: an abort during the wait is followed by one more transfer, on IOKit after up to 100 ms (`transport_darwin.go:730`, `transport_darwin.go:765`), on usbfs after a reap (`transport_linux.go:610`, `transport_linux.go:640`; `transport_linux.go:757`, `transport_linux.go:906`), on WinUSB after up to 500 ms (`transport_windows.go:685`, `transport_windows.go:743`). The priming tests nothing either: an abort within it lets the rest of the window go out. All of it is discarded on the way out |
| `Backends!AbortHeard` | `backends` | an IOKit read between its look at the latch and its snapshot of the generation does not hear the abort and waits out its deadline; on the other hosts an `ArmRead` before the read's next poll does the same |
| `Cooling!OneBackend` | "cache" of `cooling` with 2 callers | the caller that loses the race retargets the other's loop and points `Temperature` at its own backend (`camera.go:317`) |
| `Cooling!OffMeansZero` | "off" of `cooling` with `MayFail` | a disable after a loop retired with its zero failing writes nothing (`camera.go:371`) |
| `Cooling!OffMeansZero` | "off" of `cooling` with 2 callers | another thread's cache mark lands between the invalidation and the check (`camera.go:380`); Close does not join a loop another disabler took (`camera.go:371`) |
| `Cooling!FanWhileDriven` | "off" of `cooling` with `MayFail` | fan stopped, then the drive write fails (`thermal_zwo.go:111`) |
| `Cooling!FanWhileDriven` | "off" of `cooling` with the heater | heater and fan read-modify-write one register (`thermal_zwo.go:161`) |
| `Cooling!CacheHolds` | "cache" of `cooling` with resets | a tick between the reset's invalidation and the reset (`capture.go:107`) |
| `Cooling!CacheHolds` | "cache" of `cooling` with `ForgetsFailedWrite = FALSE` | PlayerOne's cache survives a failed write (`thermal_poa.go:108`) |
| `Readout!StartScaled` | "readout" of `readout_setters` | PlayerOne's profile scales a window's size by the bin and not its start (`imx585.go:788`), so a start in output pixels is programmed as sensor pixels |
| `Readout!BlockAgrees` | "readout" of `readout_setters` | after one failure `SetSensorMode` puts the window back and not the sensor's mode block (`camera.go:755`) |
| `Readout!HighSpeedRollsBack` | "readout" of `readout_setters` | `SetHighSpeedMode` puts nothing back (`camera.go:793`) |
| `Readout!ClampAccepted` | without `HasRoom` | close to the far edge the aligned start may leave less than a step, and ClampROI returns a window of no width, which SetROI refuses (`camera.go:969`) |
| `Timing!HDRFrameFits` | "poa" of `readout_setters` | from the trigger band up, PlayerOne's frame length counts the window's lines once, although HDR reads them twice and the comment of the short branch says so (`imx585.go:594`) |
| `Timing!BandAgrees` | without `~broken` | a failed `SetExposure` may leave the trigger bit of the duration it refused, while `expDur`, by which the worker picks its band, keeps the old one (`camera.go:826`) |
| `Frames!FrameHolds` | "frames" of `streams` without `BoundaryKept` | the defect map is applied to a frame read early before the caller looks for its boundary (`capture.go:699`, `capture.go:774`); a named pixel at the boundary overwrites the marker, and the shifted frame is returned as good, where `capture.go:675` says the caller drops it |
| `Frames!FrameHolds` | "frames" of `streams` without `SourcesGood` | a marker is replaced from a pixel the map names, before the map is applied: the defect is copied to the corner, where nothing mends it (`capture.go:685`) |
| `Frames!FrameHolds` | "frames" of `streams` without `Isolated` | a named corner pixel whose two neighbours are named too stays as it is, and the neighbours then take it for repaired (`defectmap.go:124`) |
| `Hotplug!EndsWithContext` | "hotplug" of `readout_setters` with `StopSticks = FALSE` | a context that ends between the loop's publication and its start: if the stop is lost, the loop runs on, and the channel is never closed (`hotplug_darwin.go:79`; `hotplug.go:20` says it is) |
| `Hotplug!EndsWithContext` | "hotplug" of `readout_setters` with `CloseWakes = FALSE` | the reader waits for the next uevent, of whatever device, and until then the channel stays open (`hotplug_linux.go:36`) |
| `Hotplug!OwnSocket` | "hotplug" of `readout_setters` with `MayReuse = TRUE` | a reader between two reads when the socket closes may read from another descriptor of the same number (`hotplug_linux.go:42`) |
| `Hotplug!LastsAsLong` | "hotplug" of `readout_setters` | an error of the read, such as an overrun of the socket, closes the channel while the context lasts (`hotplug_linux.go:50`) |
| `Guide!LinesReported` | two threads in one direction | the transfers of two calls and their updates of the mask may come in different orders, and an asserted line is reported idle for good (`guide.go:73`) |

Deadlock is checked except where the system really may stop: after the device is lost
every loop ends (`cooling_live`), a session or a read ends (`streams`, `sessions_latch`),
and a closed device takes no calls (`backends`). `cooling` and `workers` say where a
scenario may rest (`Rest`) and check the others.

**Fairness.** `Capture!FairSpec` is weak fairness of every thread's own steps: the Go
scheduler runs a thread that can run. It assumes neither that a frame ever arrives nor
that a read ever reaches its deadline, so a waiting read is ended by the latch alone.
`Cooling!FairSpec` adds strong fairness of `LoopCancelled`: Run's `select` chooses at
random among ready cases, so it does not choose the tick forever. `Workers!Fairness` is
weak fairness of the worker, every read of which has a deadline, and of the end of a
pulse's transfer, and strong fairness of `TickerStops`, a `select` again.
`Backends!Fairness` is strong fairness of each thread inside a call, for a Go mutex is
handed over in the end (its starvation mode) and a session's `Next` and a drain end by
their own bounds, and weak fairness of the abort's second half; a frame read is not
assumed to end by itself.

## 4. What is proved

All proofs are checked by TLAPS, for every value of the constants that satisfies the
module's assumption. The assumptions (`CaptureAssumption`, `WorkersAssumption`,
`CoolingAssumption`, `StreamAssumption`, `ReadoutAssumption`, `BackendsAssumption`, and
`SessionsAssumption`, `FrameReadsAssumption`, `FramesConstants` and `TimingConstants`, which are
hypotheses of the theorems of `Sessions`, `FrameReads`, `Frames` and `Timing`) type the
constants, keep kinds of threads apart and say which frames there are; TLC evaluates them
on every run of an instance of the module.
What a theorem needs beyond them stands before the colon; the hypotheses are explained
below the table.

| Theorem | Statement | Argument |
|---|---|---|
| **Capture** | | |
| `TypeCorrect` | `Spec => []TypeOK` | inductive as it stands |
| `StaleNeverClobbers` | `Spec => StaleLeavesStatus` | every status write of a reader goes through the generation check |
| `NoSessionLeaks` | `Spec => []SessionsOwned` | an open session is the adopted one, or in the hands of a thread at a label where it will close or adopt it; at those labels hands differ |
| `AbortsPromptly` | `Spec => []PromptAbort` | `LastRead` |
| `EachFrameOnce` | `SoleReader`: `Spec => []DeliveredOnce` | `OnceInv` |
| `OneArms` | `OneShotCallers`: `Spec => []NoDoubleArm` | `HoldInv` |
| `ClaimReadable` | `HasWorker`, `ShotController`: `Spec => []LiveClaimReadable` | `LatchInv` |
| `QuietIsHalted` | `HasWorker`, `PatientCallers`: `Spec => []HaltedWhenQuiet` | `HaltInv` |
| `WorkerImplements` | `HasWorker`: `Spec => Implements` | `RefInv` |
| **Workers** | | |
| `AtRest` | `Spec => []LeftAtRest` | `IInv` |
| `Gated` | `Spec => []ReadsGated` | `IInv` |
| **Cooling** | | |
| `CoolerOnTruthful` | `Spec => []CoolerOnIsTrue` | `LifeInv` |
| `NoOrphanLoop` | `Spec => []OneRegulator` | `LifeInv` |
| `NeverQuietlyOff` | `Spec => []EnabledOrFaulted` | `LifeInv` |
| `CoolingTypes` | `Spec => []TypeOK` | `TypeInv`, with the limit of failures |
| `ThermalFollows` | `LoneCaller`: `Spec => []OneBackend` | `LoneInv` |
| `CacheTruthful` | `LoneCaller`, no resets, a failed write is forgotten or writes do not fail: `Spec => []CacheHolds` | `LoneInv`, `CacheKept` |
| `OffIsOff` | `LoneCaller`, a device that works: `Spec => []OffMeansZero` | `LoneInv`, `UpInv` |
| `FanRuns` | `LoneCaller`, a device that works, `OnlyCooling`: `Spec => []FanWhileDriven` | all of these and `FanKept` |
| **Stream** | | |
| `NoLostSegment` | `Spec => []SegmentsHeld` | `RingInv` |
| `StreamTypes` | `Spec => []TypeOK` | `FrameInv` |
| `WholeFramesInOrder` | `Spec => []FramesInOrder` | `FrameInv` |
| **Sessions** | | |
| `NoLostSegment` | `Spec => []SegmentsHeld` | `RingInv` of `Sessions` |
| `LentAlwaysUntouched` | `Spec => []LentUntouched` | `RingInv` of `Sessions` |
| `SignalsAlwaysBalance` | `Spec => []SignalsBalance` | `SignalInv` |
| `WholeFramesInOrder` | `Spec => []FramesInOrder` | `FrameInv` of `Sessions` |
| `SessionTypes` | `Spec => []TypeOK` | `FrameInv` of `Sessions`, `SignalInv` |
| **Backends** | | |
| `HandleHeldAlways` | `Spec => []HandleHeld` | `HandleInv` |
| `CallsExcludeAlways` | `Spec => [](TypeOK /\ GateHolds /\ DrainedOnce /\ ((IOKit => ~CameraStops) => CallsExclude))` | `HandleInv`, `Alone` |
| `OneSessionAlways` | `Spec => []OneSession` | `HandleInv`, `Alone` |
| **Readout** | | |
| `NeverDeadMode` | `Spec => []NoDeadMode` | `ModeInv` |
| `WindowsHold` | shipped bodies: `Spec => []WindowHolds` | `Sound`, `Following`, and the arithmetic of `ClampROI` |
| `FramesAgree` | shipped bodies: `Spec => []FrameLengthAgrees` | `Fitting` |
| `CodesAgree` | shipped bodies: `Spec => []CodesFollow` | `Following` |
| `RollsBack` | shipped bodies: `Spec => []FailedCallKeepsView` | `Sound`, and what each setter restores |
| **Guide** | | |
| `GuidingReported` | finitely many threads, no two in one direction: `Spec => []LinesReported` | `LinesInv` |
| **FrameReads** | | |
| `ReadsTypeCorrect` | `Spec => []TypeOK` | `ReadsInv` |
| `NoGapInACount` | `Spec => []PrefixIntact` | `ReadsInv`: `OutHolds` |
| `NextFrameLeftAlone` | `Spec => []NoOverread` | `ReadsInv`: `Within`, `PumpHolds` |
| `NoShortOfItself` | `Spec => []ShortHasCause` | `ReadsInv`: `Fed`, `ShortHolds` |
| `AtMostOneAfterAbort` | `Spec => []OneAfterAbort` | `AfterInv` |
| **Frames** | | |
| `FrameReturned` | `Spec => []FrameHolds` | `FrameInv`: `Upright` |
| `RefusedForItsStart` | `Spec => []RefusedForStart` | `FrameInv` |
| **Hotplug** | | |
| `NobodyIsLate` | the three hosts: `Spec => []NobodyLate` | `PlugInv` |
| `HeldBySystemAlone` | the three hosts: `Spec => [](cancelled /\ open /\ ~MayStep => HeldBySystem)` | `PlugInv` |
| `CallbacksLast` | macOS and Windows: `Spec => []LastsAsLong` | `PlugInv` |
| **Timing** | | |
| `ExposureIsRight` | `Spec => []ExposureHolds` | `TimingInv` |

The hypotheses, and what happens without them (the falsities are TLC's):

- `SoleReader`, one thread that reads captures: two readers of one capture may each
  deliver its frame, for nothing in `GetDataAfterExp` lets only one go on.
- `OneShotCallers`: `SoleReader`, controllers that only start single shots, and each
  read matched to its start, with or without a worker. A reader at liberty may find the
  claim of a start that is still arming.
- `ShotController`: one controller, which does not start video. With two, one's stop
  raises the latch after the other's start has lowered it; a `StartVideo` that fails
  leaves it up (section 3).
- `PatientCallers`: what nobody reads nobody halts. `QuietIsHalted` excuses, as its
  property does, a first arm that failed where the profile halts none.
- `LoneCaller`, a device that works, no resets, a cache that forgets: section 3 says
  what two callers, a failure, a reset and PlayerOne's cache do to the drive and the
  cache. `OnlyCooling` leaves out the heater, which shares the fan's register, and the reset,
  after which the fan is off.
- `ShippedBodies`: the window steps of the two vendors, binning factors of 1 to 4, and
  dies of at least one step; the requests and probes are any windows of whole numbers. TLC evaluates
  on every run of `MCReadout` that its two bodies, requests and probes are such
  (`InstanceShipped`). How many transfers fail is any number: it is the properties that
  stop claiming something at one (`CodesFollow`) or two (`FrameLengthAgrees`,
  `FailedCallKeepsView`).

- `FramesConstants`: one vendor's marks at a time; windows of the steps `SetROI` asks for
  (8 columns on ZWO, 4 on PlayerOne) and of a row more than a marker's repair steps; a
  boundary that lies inside the buffer; and, where PlayerOne marks frames, a step of rows
  at least as long as a marker, and a second marker after what the first one's repair
  reads. Left out by it, though `SetROI` accepts them: a colour window of two rows, in
  which `repairFX3DMAMarkers` steps along the row (`capture.go:627`), and PlayerOne
  windows of 4 or 8 columns in which `repairPOAFrameMarker` has nowhere to copy from and leaves
  the marker (`protocol_poa.go:291`, `protocol_poa.go:303`). The three assumptions on the
  map, without each of which TLC refutes the property, are part of `Init` (section 3).

`LastRead` follows one read: after the read that an aborted capture had begun, its
thread is on its way out of `GetDataAfterExp` (`WayOut`), on which there is no other.
It needs `Known`: the generation a thread works for is never ahead of the counter, so
an aborted exposure stays so for those who still work for it. No worker is assumed; the
recovery's arm, which may set a stopped exposure to Working, does not make it current again.

`OnceInv` keeps each reader on the labels of its call (`PathOf`), and says that an
exposure delivered is over (`Consumed`): it is not claimed, or a newer one is, and no
reader is left in a capture of it.

`HoldInv` counts who may arm: a start between its claim and its end, or a reader inside
a capture (`Holds`), is at most one thread, and while a reader looks at the status no
start is under way, for then callers have one shot in flight.

`LatchInv` follows the latch: if it is up, the exposure is aborted, or a start is on
its way to lower it (`Lowering`), which it does before it returns; and what a stop is
about to raise the latch for is an exposure it has marked aborted (`Raising`), since the
one controller makes no start meanwhile. Nobody works on under the abort (`AbortSticks`),
for with a worker only claims store Working.

`HaltInv` is about a readout that runs when nothing is claimed: it is a free-run's, or
some thread is at a place from which every path leads through a halt (`WillHalt`).
That thread need not be the one that armed it.

`IInv` of `Workers` is about transfers not made yet (`Left`, and the very last of them,
`Final`). `RestInv` says that on the way out, unless a transfer of it failed, each bit
that still runs has one among them that stops it, and none that starts it again;
`SigInv` that the trigger signal is up only between the window's opening and its end,
or was lost to a failing transfer, and that closing ends with the transfer that lowers
it; `GateInv` and `WaitInv`, label by label, how far the window has come since the
last arm and that WaitMode stays; `TickInv` that only the read and the join have a
ticker beside them. The profiles enter through three facts about their chains: a window
that opens closes, an exit halts, no chain of the IMX462's trigger band clears WaitMode
(`Gates`, `Halts`, `KeepsWait`, together `Sound`), proved of each of the seven. The
ladders' counters do not matter to it.

`RefInv` is what the refinement needs of a reachable state. A step of `Capture` that
changes what callers see must be a step of `Exposure` for one exposure: so a thread at a
label where it works for a capture names one that was begun (`Named`), no thread names
one that was not, and a working status has one (`Begun`). The proof goes through the
steps that change nothing a caller sees, in lemmas by kind of routine, and then one
lemma for each that does: the claim, the stop's mark, a reader's end, a frame. A
stopped exposure stays stopped by `AbortSticks`, which is why the theorem is about
cameras with a worker.

`LifeInv` says who owns a running loop: the Camera's handle, or exactly a call that
took the handle and is still waiting (`LoopsOwned`), where a call never waits for the
loop the handle names (`TakenAway`). `OneRegulator` alone is not inductive, for it
says nothing while a call is in progress. `WantKept` adds that a cooler that is wanted
and has neither a loop nor a fault is inside an `EnableCooling` between its two
critical sections. `LabelsKept` keeps `SetTECPower`'s return labels on their side.

With one caller `LoneInv` adds to `LifeInv` that there is no handle while a call takes
one down (`Handless`), that once closed there is none and no call (`ClosedForGood`), and
that the loop held regulates by the backend `Temperature` reads (`BackendKept`). From
it follows that at most one thread is inside `SetTECPower` (`OneAtTheDrive`): the caller,
after it joined the loop, or the one loop. `CacheKept` is then about that thread: a
level cached differs from the register only between its write and its mark. `UpInv`
is about a device that works: no loop fails or retires (`UpKept`), a drive that is on has a loop
or a caller that owes the zero (`ZeroOwed`), and a caller inside `SetTECPower` asks for
zero and finds no level cached that would let it skip the write (`ZeroComes`). `FanKept`
says at every label between the two registers which of them is ahead: the drive is on
only under a fan, or between the fan's stop and the drive's own zero.

`RingInv` adds to `SegmentsHeld` the slots' types and that a Next runs only in an open
session, for a closing one takes its URBs back and lets segments go. `FrameInv` is
about one number, the position of the next byte to consume. Because a URB is reaped
only when nothing is left to consume and URBs complete in order, at most one slot is
done, it holds segment `next`, and nothing was sent after it (`HostIsNext`). Unless
the session is desynced, or a Next gave up inside a trailer, that position is as many
frame spans into the output as frames were returned, plus what the Next in progress
has taken (`Aligned`), and what it has taken are those bytes (`TakenInOrder`). TLC
checked it on the instance of "usbfs" before it was proved.

In `Sessions` the kernel completes transfers beside the caller, so the same argument
is about more: `RingInv` there says also that the segments done are the first of the
window and their bytes lie end to end up to the last one sent (`Laid`), that what was
consumed of segment `next` is part of it (`Within`), and that no call runs while a slot
is lent out, which is the next to consume and holds a whole frame (`Calls`). It holds
while a session closes, and of both hosts. `FrameInv` follows the position reached
(`Reached`), where a frame lent is returned but not consumed. The way a Next ends does
not matter where nothing will be consumed any more (`Stuck`): a hard error stays at the
head of the window, and a window whose slots were all refused stays empty. `SignalInv`
is `SignalsBalance` without its condition: the count holds through the drain, and is
zero on WinUSB. TLC checked the conjuncts on the instances of "others" before they were proved.

`HandleInv` says which calls hold which lock: `closeMu` shared by those inside
(`SharedHeld`) or by `Close` alone while it stops sessions and frees (`WriterHeld`),
`ioMu` by the gated calls (`GateHeld`), and, where a `Next` does not take `closeMu`, the
session's own lock by it or by a drain (`SessionsHeld`). `HandleHeld` does not follow
from the locks: on usbfs and WinUSB a `Next` holds none that `Close` waits for. What
saves it is that an open session is registered, that the sessions `Close` found when it
got the lock are all there will be (`ClosedForGood`), and that stopping one takes its
lock. `StopApart` is the caller's duty on IOKit, which the Camera does not keep; without
it a `Next` may meet `StopExposure`'s drain (`SingleConsumer` in section 3).
`CallsExcludeAlways` therefore says what holds there all the same: the locks, the gate,
and that no session is drained twice (`DrainedOnce`). `Alone` adds, for IOKit, that
whoever arms, reads or drains a session is in the registry, which has one place.

`ModeInv` adds to `NoDeadMode` that a body without sensor modes is in the normal one,
without which `SetOutputDepth`, which skips the sensor block there, would not keep it.
The proof follows the calls: one lemma per procedure says that all its outcomes keep
depth and mode (`Kept`), or, for the two setters that change them, where they may end
(`DepthOutcome`, `ModeOutcome`), with a failure at any transfer of any rollback.

The other theorems of `Readout` follow the same calls with a stronger state. `Kind` says
what holds after any number of failures (`Sound`: the view has its types, depth and mode
have a block, and `SetROI` accepts the window held at the split in use), what holds
while at most one transfer has failed (`Fitting`: the mode carries the view's window
and split, and the FPGA hands over what the view reads), and what holds while none has
(`Following`: gain and offset codes, and the start of ZWO's window, in the registers). It is kept by a call, not by a transfer, so each procedure has a
lemma on its outcomes (`ROIOutcome`, `GainSet`, `OffsetSet`, `Deep`, `Turned`), by the
result and the number of failures spent; `Then` and `OrElse` compose them as the code
does. A failed setter may have left the view (`Strayed`) only until its rollback has
run (`Restores`). Under them lies the arithmetic of `Windows`: an aligned start and a
clamped size are within the die, multiples of the steps, and legal at the split asked
for, by cases over the bins.

`LinesInv` says where mask and line may differ (`Tracks`): between the transfer of the
one thread that guides in a direction and its update, where the line is what the
transfer made it. That is where directions of one's own are needed. `Counted` is the
count of pulses from their call to their end.

`ReadsInv` is one invariant of eight engines. Its first part (`Kernel`) holds of all of
them: the two queues hold each slot once and by its owner, and the completed transfers
lie end to end in what the device sent, up to where it is now (`Chained`). A cover
engine then needs that slots go out, come back and are counted in order, though IOKit's
batch may have holes where a submission was refused (`CoverOrder`), and that while
everything before a slot came in whole, the slot's bytes are those of its own offset
(`InPlace`): the first short transfer ends that, and no engine counts past it (`OutHolds`).
That no byte of the next frame is taken follows there from the slots not in leaving the
device room (`Within`), and for a mark engine from the mark, which is where the oldest
completed transfer begins (`MarkHolds`). The pump recycles a transfer for what is still
owed, and its counter `outstanding` has to agree with queues that change under it:
`PumpHolds` says that there is an account of the transfers in flight, from the oldest
on, whose sum is the counter and which with the bytes copied never exceeds the frame
(`Budget`). `Fed` is the other half: as long as nothing excuses a short frame, something
is in flight or everything was asked for, after any number of zero-length
transfers. The lemmas say of reaping, submitting and completing one
transfer what each keeps; a step of an engine is a composition of two or three of them.
TLC checked `ReadsInv` on the instance of "reads" before it was proved.

`AfterInv` is about the one transfer that may follow an abort: whoever is behind its tests
(`reap`) with an abort or deadline past has submitted nothing since, WinUSB's stream
apart, which waits there for what it submitted; and from the tests nobody gets there any more.

`PlugInv` says where the two threads of a subscription can be together (`Apart`: on
Linux the reader closes the channel, elsewhere the goroutine that waits for the context does, once
the sender has ended), what brings the end (`Ending`), and that the port is freed last
(`Orderly`). `HeldBySystemAlone` assumes nothing about the system: where no step of the code is left
and the channel is open though the context is done, the code waits for one of two things (`HeldBySystem`), each
of which TLC finds (section 3): a read that closing its socket does not end, or a loop that
lost its stop. It has `MayStep` for the `ENABLED` that the proof system does not have; that
the two are the same TLC checks (`GuardsComplete`), on an instance where the system grants both.

`TimingInv` says what the registers hold after the last window that went whole
(`Settled`) and after an exposure that went whole over it (`Exact`), and that a call torn
at any write leaves the first as it was. Under it lie facts about rows of writes,
which compose: what a row writes to a register (`Puts`, `Gives`) follows from its parts,
and a row cut short leaves in a register what it held or one of these. Then one lemma a
profile that the shutter arithmetic, with its truncated divisions, integrates to within
nine lines of what was asked for, and that line periods are the same number wherever a
profile computes them: for the window's HMAX, the exposure's and the shutter's.

`FrameInv` is about every place of the buffer at once. Of a frame read from its start
`Upright` says, step by step, what the loop's index divides: before it the markers are
replaced (`Scanned`), the named pixels mended (`Ready`), the outputs made (`Binned`); behind
it the samples are what was sent, or fit to be used (`Good`). The step from one
index to the next needs that what it reads has not been overwritten. For a marker that
is the row it copies from, which has no mark in it (`WordsReplaced`, `MarkRepaired`); for a
named pixel its neighbours, those before it mended and those after it not named; for an output its
sources, all of which lie at or behind it (`SourcesHold`), which is why the bins may run
in place. `SourcesAre` says that the samples the four bins add up are the ones
`Footprint` names, by the arithmetic of blocks, lanes and Bayer phases, for every bin and
window. Of a frame read early `Seen` says that the boundary the caller looks for stays where
it was through each of the repairs, so that such a frame is never binned or returned.
The product of two unknown numbers is hard on the solver, so the proofs reason about
places in a row (`Grid`, `Place`, `Block`) in lemmas of their own and hide the products
elsewhere.

Where a proof needs the first or the last of several (the first short transfer, the last
write to a register) it takes the least element of a set of numbers (`LeastNat`), for
which the library's well-founded order will do; the induction theorems, which take
an operator, are out of reach.

Model-checked only: `ENABLED` in
`EndsWithContext` and `GuardsComplete`; and all liveness, which is out of the proof
system's reach, as is anything that needs induction over data. Runs that compose
several modules check the properties above under a name of the MC module, which no
theorem states by that name: `DriveKept` and `CacheIsTrue` are the theorems of `Cooling` in their
scenarios, `HaltedWhenQuiet` of "video" is `QuietIsHalted` for a camera that also streams,
`LinesReported` and `ExposureHolds` are those of `Guide` and `Timing`, `SubscriptionHolds` those of
`Hotplug`, `SessionsHold` those of `Sessions` together, `ReadsHold` the invariants of `FrameReads`,
`FramesHold` the two of `Frames`, and `OneSession` that of `Backends`.

## 5. Status and plan

Modelled, checked and, where section 4 says so, proved: the exposure lifecycle and its
refinement, the workers, cooling, the three backends with their locks, sessions and
whole-frame reads, readout configuration of two profiles, exposure timing of all,
guiding, frame repair and binning, hotplug subscriptions.

Not modelled, and why:

- Enumeration: a list of devices, opened and closed one after the other; the parsing
  of hotplug notifications.
- The two readers of defect maps: reads of a flash and decoding of a table.
  `ApplyRAW16` is called by nothing in the package.
- The windows, gain and offset of the dies other than the IMX455 and the IMX585, white
  balance: tables of the same form as those in `Readout`.
- The pacing of EP0 transfers, opcodes, register maps and model tables: data.
- `gosnap`: a client.

What is left, in order of worth: the refinement of `Capture`'s read actions by
`FrameReads` and `Sessions`, which are now related by what their actions are named
after; the windows of the remaining dies.
